---- MODULE Spec2Model ----
(***************************************************************************)
(* Model of the quantitative engine of Equity_Agent (lib/calculations.ts): *)
(* growth / computeSeriesCagr, computeDCF, computeMomentum,                *)
(* computeCompositeScores, computeForwardView and deriveMetrics.           *)
(*                                                                         *)
(* Numbers.  A JavaScript number is modelled as a pair <<n, d>>:           *)
(*   d > 0          the rational n/d in lowest terms,                      *)
(*   <<1, 0>>       +Infinity,   <<-1, 0>>  -Infinity,   <<0, 0>>  NaN,     *)
(* and null / undefined as Null.  Arithmetic is exact rational arithmetic  *)
(* with the IEEE-754 rules for division by zero, infinities and NaN.  The  *)
(* two transcendental steps of the source are modelled at a stated         *)
(* resolution: x ** (1/years) is rounded down to a multiple of 1/RootScale *)
(* (exact when years = 1), Math.exp is tabulated to four decimals.         *)
(***************************************************************************)
EXTENDS Integers, Sequences, FiniteSets, TLC

VARIABLES pc, call, ret

vars == <<pc, call, ret>>

(***************************************************************************)
(* Bounds of the model                                                     *)
(***************************************************************************)
\* resolution of a fractional power: results are multiples of 1/RootScale
RootScale == 10
\* longest revenue / EPS / FCF series handed to computeDCF
MaxSeriesLen == 3
\* longest series handed to growth directly
MaxGrowthLen == 5

(***************************************************************************)
(* Numbers                                                                 *)
(***************************************************************************)
Null == <<0, -1>>
NaN == <<0, 0>>
PosInf == <<1, 0>>
NegInf == <<-1, 0>>

Abs(i) == IF i < 0 THEN -i ELSE i
Sgn(i) == IF i < 0 THEN -1 ELSE IF i > 0 THEN 1 ELSE 0

RECURSIVE GCD(_, _)
GCD(a, b) == IF b = 0 THEN a ELSE GCD(b, a % b)

\* the number n/d (d any integer) in canonical form
Q(n, d) ==
  IF d = 0 THEN <<Sgn(n), 0>>
  ELSE LET g == GCD(Abs(n), Abs(d))
           s == IF d < 0 THEN -1 ELSE 1
       IN  <<s * (n \div g), s * (d \div g)>>

I(n) == <<n, 1>>

IsNull(x) == x = Null
IsNaN(x) == x = NaN
IsInf(x) == x = PosInf \/ x = NegInf
IsFinite(x) == x[2] > 0
SignOf(x) == Sgn(x[1])

\* JavaScript truthiness of a number | null: false for null, 0 and NaN
Truthy(x) == ~IsNull(x) /\ x[1] # 0

RNeg(a) == <<-a[1], a[2]>>

RAdd(a, b) ==
  IF a[2] > 0 /\ b[2] > 0
  THEN LET g == GCD(a[2], b[2])
           l == (a[2] \div g) * b[2]
       IN  Q(a[1] * (l \div a[2]) + b[1] * (l \div b[2]), l)
  ELSE IF IsNaN(a) \/ IsNaN(b) THEN NaN
  ELSE IF IsInf(a) THEN (IF IsInf(b) /\ b # a THEN NaN ELSE a)
  ELSE b

RSub(a, b) == RAdd(a, RNeg(b))

RMul(a, b) ==
  IF a[2] > 0 /\ b[2] > 0
  THEN LET g1 == GCD(Abs(a[1]), b[2])
           g2 == GCD(Abs(b[1]), a[2])
       IN  <<(a[1] \div g1) * (b[1] \div g2), (a[2] \div g2) * (b[2] \div g1)>>
  ELSE IF IsNaN(a) \/ IsNaN(b) THEN NaN
  ELSE <<SignOf(a) * SignOf(b), 0>>

\* IEEE division: x/0 is +-Infinity, 0/0 and Inf/Inf are NaN, x/Inf is 0
RDiv(a, b) ==
  IF a[2] > 0 /\ b[2] > 0 /\ b[1] # 0
  THEN RMul(a, IF b[1] < 0 THEN <<-b[2], -b[1]>> ELSE <<b[2], b[1]>>)
  ELSE IF IsNaN(a) \/ IsNaN(b) THEN NaN
  ELSE IF IsInf(b) THEN (IF IsInf(a) THEN NaN ELSE I(0))
  ELSE IF b[1] = 0 THEN <<SignOf(a), 0>>
  ELSE <<SignOf(a) * SignOf(b), 0>>

\* a < b, false when either is NaN
RLt(a, b) ==
  IF a[2] > 0 /\ b[2] > 0 THEN a[1] * b[2] < b[1] * a[2]
  ELSE IF IsNaN(a) \/ IsNaN(b) THEN FALSE
  ELSE (a = NegInf /\ b # NegInf) \/ (b = PosInf /\ a # PosInf)

RLe(a, b) == ~IsNaN(a) /\ ~IsNaN(b) /\ ~RLt(b, a)

RMin(a, b) == IF IsNaN(a) \/ IsNaN(b) THEN NaN ELSE IF RLt(b, a) THEN b ELSE a
RMax(a, b) == IF IsNaN(a) \/ IsNaN(b) THEN NaN ELSE IF RLt(a, b) THEN b ELSE a

RAbs(a) == <<Abs(a[1]), a[2]>>

\* a ** k for a natural number k
RECURSIVE RPow(_, _)
RPow(a, k) == IF k = 0 THEN I(1) ELSE RMul(a, RPow(a, k - 1))

RECURSIVE IPow(_, _)
IPow(b, k) == IF k = 0 THEN 1 ELSE b * IPow(b, k - 1)

\* the largest r with (r/RootScale)^y <= n/d, searched upwards from r
RECURSIVE RootSearch(_, _, _, _)
RootSearch(r, y, n, d) ==
  IF IPow(r + 1, y) * d > n * IPow(RootScale, y) THEN r
  ELSE RootSearch(r + 1, y, n, d)

\* x ** (1/years) for a finite x > 0
RRoot(x, years) ==
  IF years = 1 THEN x ELSE Q(RootSearch(0, years, x[1], x[2]), RootScale)

\* value ?? fallback
OrElse(x, fallback) == IF IsNull(x) THEN fallback ELSE x

(***************************************************************************)
(* lib/calculations.ts                                                     *)
(***************************************************************************)
clamp(value, min, max) == RMin(RMax(value, min), max)

\* a deliberately wrong growth: the oldest point is taken to be series[2]
growth_secondPoint(series) ==
  IF Len(series) < 2 THEN Null
  ELSE LET first == series[2]
           last == series[1]
           years == IF Len(series) - 1 < 3 THEN Len(series) - 1 ELSE 3
       IN  IF RLe(first, I(0)) \/ RLe(last, I(0)) THEN Null
           ELSE RSub(RRoot(RDiv(last, first), years), I(1))

\* series is newest-first: series[1] is series[0] of the source, series[Len]
\* is series.at(-1)
growth(series) ==
  IF Len(series) < 2 THEN Null
  ELSE LET first == series[Len(series)]
           last == series[1]
           years == IF Len(series) - 1 < 3 THEN Len(series) - 1 ELSE 3
       IN  IF RLe(first, I(0)) \/ RLe(last, I(0)) THEN Null
           ELSE RSub(RRoot(RDiv(last, first), years), I(1))

computeSeriesCagr(series) == growth(series)

\* number of forecast years of computeDCF
ForecastYears == 5

\* the loop "current *= 1 + fcfCagr; forecast.push(current)" run n times
RECURSIVE dcfForecast(_, _, _)
dcfForecast(current, fcfCagr, n) ==
  IF n = 0 THEN <<>>
  ELSE LET next == RMul(current, RAdd(I(1), fcfCagr))
       IN  <<next>> \o dcfForecast(next, fcfCagr, n - 1)

discount(value, year, wacc) == RDiv(value, RPow(RAdd(I(1), wacc), year))

\* forecast.reduce((acc, value, index) => acc + discount(value, index + 1), 0)
RECURSIVE dcfDiscountedSum(_, _, _)
dcfDiscountedSum(forecast, k, wacc) ==
  IF k = 0 THEN I(0)
  ELSE RAdd(dcfDiscountedSum(forecast, k - 1, wacc), discount(forecast[k], k, wacc))

\* a deliberately wrong terminal value: the denominator's operands are swapped
dcfTerminal_swapped(terminalValue, wacc, terminalGrowth, years) ==
  discount(RDiv(RMul(terminalValue, RAdd(I(1), terminalGrowth)),
                RSub(terminalGrowth, wacc)), years, wacc)

dcfTerminal(terminalValue, wacc, terminalGrowth, years) ==
  discount(RDiv(RMul(terminalValue, RAdd(I(1), terminalGrowth)),
                RSub(wacc, terminalGrowth)), years, wacc)

dcfGrowthRate(snapshot) ==
  clamp(OrElse(growth(snapshot.fcfSeries), I(0)), Q(-1, 5), Q(1, 4))

\* a deliberately wrong guard: only an absent share count is rejected
dcfMissing_nullOnly(snapshot) ==
  Len(snapshot.fcfSeries) = 0 \/ IsNull(snapshot.sharesOutstanding)

dcfMissing(snapshot) ==
  Len(snapshot.fcfSeries) = 0 \/ ~Truthy(snapshot.sharesOutstanding)

computeDCF(snapshot, wacc, terminalGrowth) ==
  IF dcfMissing(snapshot) THEN Null
  ELSE LET fcfTtm == snapshot.fcfSeries[1]
           fcfCagr == dcfGrowthRate(snapshot)
           forecast == dcfForecast(fcfTtm, fcfCagr, ForecastYears)
           discountedSum == dcfDiscountedSum(forecast, Len(forecast), wacc)
           terminalValue == forecast[Len(forecast)]
           terminal == dcfTerminal(terminalValue, wacc, terminalGrowth, Len(forecast))
       IN  RDiv(RAdd(discountedSum, terminal), snapshot.sharesOutstanding)

(***************************************************************************)
(* Input sets                                                              *)
(***************************************************************************)
SeqsUpTo(S, n) == UNION {[1..k -> S] : k \in 0..n}

\* values of a revenue / EPS / FCF series
SeriesVals == {I(-4), I(0), I(4), I(5), I(6)}
ShareVals == {Null, I(0), I(2)}
\* cost of capital
WaccVals == {I(0), Q(1, 2), I(1)}
\* terminal growth
TerminalGrowthVals == {I(0), Q(2, 5), Q(1, 2)}

(***************************************************************************)
(* growth / computeSeriesCagr                                              *)
(***************************************************************************)
InitGrowth ==
  /\ pc = "call"
  /\ call \in {[fn |-> "computeSeriesCagr", series |-> s] :
                 s \in SeqsUpTo(SeriesVals, MaxGrowthLen)}
  /\ ret = Null

CallComputeSeriesCagr ==
  /\ pc = "call"
  /\ call.fn = "computeSeriesCagr"
  /\ ret' = computeSeriesCagr(call.series)
  /\ pc' = "return"
  /\ UNCHANGED call

NextGrowth == CallComputeSeriesCagr

SpecGrowth == InitGrowth /\ [][NextGrowth]_vars

(***************************************************************************)
(* computeDCF                                                              *)
(***************************************************************************)
InitDCF ==
  /\ pc = "call"
  /\ call \in {[fn |-> "computeDCF",
                snapshot |-> [fcfSeries |-> s, sharesOutstanding |-> sh],
                wacc |-> w, terminalGrowth |-> tg] :
                 s \in SeqsUpTo(SeriesVals, MaxSeriesLen), sh \in ShareVals,
                 w \in WaccVals, tg \in TerminalGrowthVals}
  /\ ret = Null

CallComputeDCF ==
  /\ pc = "call"
  /\ call.fn = "computeDCF"
  /\ ret' = computeDCF(call.snapshot, call.wacc, call.terminalGrowth)
  /\ pc' = "return"
  /\ UNCHANGED call

NextDCF == CallComputeDCF

SpecDCF == InitDCF /\ [][NextDCF]_vars

(***************************************************************************)
(* computeForwardView                                                      *)
(***************************************************************************)
\* a deliberately wrong clamp: the lower bound is not applied
clamp_upperOnly(value, min, max) == RMin(value, max)

\* the clamp of the expected exit P/E to [0.7, 1.3] x the current P/E
expectedPeClamp(value, min, max) == clamp(value, min, max)

macroShock(normalizedBeta) ==
  IF RLt(Q(13, 10), normalizedBeta) THEN I(-1)
  ELSE IF RLt(normalizedBeta, Q(7, 10)) THEN I(1)
  ELSE I(0)

computeForwardView(params) ==
  IF ~Truthy(params.price) \/ ~Truthy(params.pe)
  THEN [base |-> Null, bull |-> Null, bear |-> Null, confidence |-> Null]
  ELSE LET price == params.price
           pe == params.pe
           wacc == params.wacc
           growthRate == OrElse(params.epsCagr, I(0))
           normalizedBeta == OrElse(params.beta, I(1))
           drift == clamp(growthRate, Q(-1, 5), Q(1, 4))
           baseMultiple == OrElse(params.peMedian, pe)
           multipleMeanReversion == RMul(RSub(baseMultiple, pe), Q(3, 10))
           expectedPe ==
             expectedPeClamp(
               RAdd(RAdd(pe, multipleMeanReversion), macroShock(normalizedBeta)),
               RMul(pe, Q(7, 10)), RMul(pe, Q(13, 10)))
           epsForward == RMul(RDiv(price, pe), RAdd(I(1), RDiv(drift, I(2))))
           basePrice == RMul(epsForward, expectedPe)
           base == RMul(RSub(RDiv(basePrice, price), I(1)), I(100))
           bull == RMul(RSub(RDiv(RMul(basePrice, Q(23, 20)), price), I(1)), I(100))
           bear == RMul(RSub(RDiv(RMul(basePrice, Q(17, 20)), price), I(1)), I(100))
           confidence ==
             RSub(I(1),
                  RMin(I(1),
                       RAdd(RAdd(RAbs(drift), RAbs(RSub(normalizedBeta, I(1)))),
                            RMax(I(0), RSub(Q(1, 10), wacc)))))
       IN  [base |-> base, bull |-> bull, bear |-> bear, confidence |-> confidence]

PriceVals == {Null, I(0), I(100), I(-10)}
PeVals == {Null, I(0), I(-5), Q(1, 2), I(15)}
EpsCagrVals == {Null, Q(-1, 2), Q(1, 10), Q(1, 2)}
PeMedianVals == {Null, Q(1, 4), I(14), I(40)}
BetaVals == {Null, I(0), Q(1, 2), I(1), Q(3, 2)}
ForwardWaccVals == {Q(2, 25), Q(1, 5)}

InitForward ==
  /\ pc = "call"
  /\ call \in {[fn |-> "computeForwardView",
                params |-> [price |-> p, pe |-> e, epsCagr |-> g, peMedian |-> m,
                            beta |-> b, wacc |-> w]] :
                 p \in PriceVals, e \in PeVals, g \in EpsCagrVals,
                 m \in PeMedianVals, b \in BetaVals, w \in ForwardWaccVals}
  /\ ret = Null

CallComputeForwardView ==
  /\ pc = "call"
  /\ call.fn = "computeForwardView"
  /\ ret' = computeForwardView(call.params)
  /\ pc' = "return"
  /\ UNCHANGED call

NextForward == CallComputeForwardView

SpecForward == InitForward /\ [][NextForward]_vars

(***************************************************************************)
(* computeMomentum                                                         *)
(* A point is [date |-> d, close |-> c]; date is date.getTime() counted in *)
(* whole days (1 day = 24 * 60 * 60 * 1000 ms).                            *)
(***************************************************************************)
DAYS_IN_MONTH == 30

\* a deliberately wrong comparator: (a, b) => b.date - a.date
comesBefore_descending(a, b) == b.date - a.date <= 0

\* the comparator (a, b) => a.date - b.date leaves a before b when it is <= 0
comesBefore(a, b) == a.date - b.date <= 0

\* x put into the sorted list after every element the comparator leaves
\* before it (Array.prototype.sort is stable)
RECURSIVE sortInsert(_, _)
sortInsert(sorted, x) ==
  IF sorted = <<>> THEN <<x>>
  ELSE IF comesBefore(sorted[Len(sorted)], x) THEN Append(sorted, x)
  ELSE Append(sortInsert(SubSeq(sorted, 1, Len(sorted) - 1), x), sorted[Len(sorted)])

\* a deliberately wrong sort: the points are left in the order given
sortByDate_asGiven(history) == history

\* [...history].sort((a, b) => a.date.getTime() - b.date.getTime())
RECURSIVE sortByDate(_)
sortByDate(history) ==
  IF history = <<>> THEN <<>>
  ELSE sortInsert(sortByDate(SubSeq(history, 1, Len(history) - 1)),
                  history[Len(history)])

\* [...sorted].reverse().find((item) => item.date <= cutoff)?.close ?? null
priceAt(sorted, daysAgo) ==
  LET cutoff == sorted[Len(sorted)].date - daysAgo
      hits == {i \in 1..Len(sorted) : sorted[i].date <= cutoff}
  IN  IF hits = {} THEN Null
      ELSE sorted[CHOOSE i \in hits : \A j \in hits : j <= i].close

trailingReturn(latest, price) ==
  IF Truthy(price) THEN RSub(RDiv(latest, price), I(1)) ELSE Null

RECURSIVE maxClose(_, _)
maxClose(sorted, k) ==
  IF k = 1 THEN sorted[1].close ELSE RMax(maxClose(sorted, k - 1), sorted[k].close)

RECURSIVE minClose(_, _)
minClose(sorted, k) ==
  IF k = 1 THEN sorted[1].close ELSE RMin(minClose(sorted, k - 1), sorted[k].close)

\* a deliberately wrong tag rule: three positive returns, in any order
momentumTag_anyOrder(return1M, return3M, return6M) ==
  IF /\ ~IsNull(return1M) /\ ~IsNull(return3M) /\ ~IsNull(return6M)
     /\ RLt(I(0), return1M) /\ RLt(I(0), return3M) /\ RLt(I(0), return6M)
  THEN "Most Momentum"
  ELSE "null"

momentumTag(return1M, return3M, return6M) ==
  IF /\ ~IsNull(return1M) /\ ~IsNull(return3M) /\ ~IsNull(return6M)
     /\ RLt(I(0), return1M) /\ RLt(I(0), return3M) /\ RLt(I(0), return6M)
     /\ RLt(return6M, return3M) /\ RLt(return3M, return1M)
  THEN "Most Momentum"
  ELSE "null"

computeMomentum(history) ==
  IF Len(history) = 0
  THEN [return1M |-> Null, return3M |-> Null, return6M |-> Null, tag |-> "null",
        distanceFromHigh |-> Null, distanceFromLow |-> Null]
  ELSE LET sorted == sortByDate(history)
           latest == sorted[Len(sorted)].close
           price1M == priceAt(sorted, DAYS_IN_MONTH)
           price3M == priceAt(sorted, DAYS_IN_MONTH * 3)
           price6M == priceAt(sorted, DAYS_IN_MONTH * 6)
           return1M == trailingReturn(latest, price1M)
           return3M == trailingReturn(latest, price3M)
           return6M == trailingReturn(latest, price6M)
           high == maxClose(sorted, Len(sorted))
           low == minClose(sorted, Len(sorted))
       IN  [return1M |-> return1M, return3M |-> return3M, return6M |-> return6M,
            tag |-> momentumTag(return1M, return3M, return6M),
            distanceFromHigh |-> trailingReturn(latest, high),
            distanceFromLow |-> trailingReturn(latest, low)]

\* the days a history may have a point on: 0, 30, ..., 30 * MaxDayIndex
MaxDayIndex == 6
\* the largest number of points of a history
MaxPoints == 4
DayVals == {DAYS_IN_MONTH * k : k \in 0..MaxDayIndex}
CloseVals == {I(0), I(1), I(2), I(3), I(4)}

\* the points of the days in D with the closes c, oldest first
RECURSIVE pointsAscending(_, _)
pointsAscending(D, c) ==
  IF D = {} THEN <<>>
  ELSE LET d == CHOOSE x \in D : \A y \in D : y <= x
       IN  Append(pointsAscending(D \ {d}, c), [date |-> d, close |-> c[d]])

reversed(h) == [i \in 1..Len(h) |-> h[Len(h) + 1 - i]]

\* a history has one point per day and is given oldest first or newest first
InitMomentum ==
  /\ pc = "call"
  /\ \E D \in {X \in SUBSET DayVals : Cardinality(X) <= MaxPoints} :
       \E c \in [D -> CloseVals] :
         \E h \in {pointsAscending(D, c), reversed(pointsAscending(D, c))} :
           call = [fn |-> "computeMomentum", history |-> h]
  /\ ret = Null

CallComputeMomentum ==
  /\ pc = "call"
  /\ call.fn = "computeMomentum"
  /\ ret' = computeMomentum(call.history)
  /\ pc' = "return"
  /\ UNCHANGED call

NextMomentum == CallComputeMomentum

SpecMomentum == InitMomentum /\ [][NextMomentum]_vars

(***************************************************************************)
(* computeCompositeScores                                                  *)
(* A ScoreInputs row is a record of the 16 fields, each a number or Null.  *)
(* Scores are exact rationals; Math.round rounds halves up.                *)
(***************************************************************************)
\* Math.exp, tabulated to 4 decimals on the arguments the model's
\* FCF/net-income ratios produce
MathExp(x) ==
  CASE x = I(0) -> I(1)
    [] x = Q(-1, 2) -> Q(6065, 10000)
    [] x = I(-2) -> Q(1353, 10000)
    [] x = Q(-9, 2) -> Q(111, 10000)
    [] x = I(-8) -> Q(3, 10000)

\* Math.round: the nearest integer, halves towards +Infinity
MathRound(x) ==
  IF ~IsFinite(x) THEN x ELSE I((2 * x[1] + x[2]) \div (2 * x[2]))

\* a deliberately wrong minimum: the first value of the series
seqMin_first(series, k) == series[1]

RECURSIVE seqMin(_, _)
seqMin(series, k) ==
  IF k = 1 THEN series[1] ELSE RMin(seqMin(series, k - 1), series[k])

RECURSIVE seqMax(_, _)
seqMax(series, k) ==
  IF k = 1 THEN series[1] ELSE RMax(seqMax(series, k - 1), series[k])

normalizeMinBetter(value, series) ==
  IF IsNull(value) THEN Null
  ELSE LET min == seqMin(series, Len(series))
           max == seqMax(series, Len(series))
       IN  IF min = max THEN Q(1, 2)
           ELSE RDiv(RSub(max, value), RSub(max, min))

\* a deliberately wrong normalizeMaxBetter: no special case for min === max
normalizeMaxBetter_noDegenerateCase(value, series) ==
  IF IsNull(value) THEN Null
  ELSE LET min == seqMin(series, Len(series))
           max == seqMax(series, Len(series))
       IN  RDiv(RSub(value, min), RSub(max, min))

normalizeMaxBetter(value, series) ==
  IF IsNull(value) THEN Null
  ELSE LET min == seqMin(series, Len(series))
           max == seqMax(series, Len(series))
       IN  IF min = max THEN Q(1, 2)
           ELSE RDiv(RSub(value, min), RSub(max, min))

\* center = 1, width = 0.5
bellScore(value) ==
  IF IsNull(value) THEN Null
  ELSE LET distance == RAbs(RSub(value, I(1)))
       IN  MathExp(RDiv(RNeg(RPow(distance, 2)), RMul(I(2), RPow(Q(1, 2), 2))))

\* rows.map((row) => row[key]).filter((value) => value !== null)
RECURSIVE values(_, _, _)
values(rows, key, k) ==
  IF k = 0 THEN <<>>
  ELSE IF IsNull(rows[k][key]) THEN values(rows, key, k - 1)
  ELSE Append(values(rows, key, k - 1), rows[k][key])

defaultNeutral == Q(1, 2)

\* a deliberately wrong makeScore: a missing value scores 0
makeScore_missingAsZero(value, series, mode) ==
  IF IsNull(value) \/ Len(series) = 0 THEN I(0)
  ELSE IF mode = "max" THEN OrElse(normalizeMaxBetter(value, series), defaultNeutral)
  ELSE OrElse(normalizeMinBetter(value, series), defaultNeutral)

makeScore(value, series, mode) ==
  IF IsNull(value) \/ Len(series) = 0 THEN defaultNeutral
  ELSE IF mode = "max" THEN OrElse(normalizeMaxBetter(value, series), defaultNeutral)
  ELSE OrElse(normalizeMinBetter(value, series), defaultNeutral)

\* the member of the sentiment category built from beta
betaScore(rows, row) ==
  makeScore(IF Truthy(row.beta) THEN RSub(I(1), RAbs(RSub(row.beta, I(1)))) ELSE Null,
            values(rows, "beta", Len(rows)), "max")

\* the member scores listed in the arrays valuation, ..., sentiment
memberScore(rows, row, key, mode) ==
  makeScore(row[key], values(rows, key, Len(rows)), mode)

RECURSIVE weightedSum(_, _, _)
weightedSum(scores, weights, k) ==
  IF k = 0 THEN I(0)
  ELSE RAdd(weightedSum(scores, weights, k - 1), RMul(scores[k], weights[k]))

RECURSIVE weightTotal(_, _)
weightTotal(weights, k) ==
  IF k = 0 THEN I(0) ELSE RAdd(weightTotal(weights, k - 1), weights[k])

weighted(scores, weights) ==
  RDiv(weightedSum(scores, weights, Len(scores)), weightTotal(weights, Len(weights)))

scoreRow(rows, row) ==
  LET valuation == <<memberScore(rows, row, "pe", "min"),
                     memberScore(rows, row, "evEbitda", "min"),
                     memberScore(rows, row, "dcfVsPrice", "max")>>
      profitability == <<memberScore(rows, row, "roic", "max"),
                         memberScore(rows, row, "ebitMargin", "max"),
                         memberScore(rows, row, "roe", "max")>>
      growthScores == <<memberScore(rows, row, "revenueCagr", "max"),
                        memberScore(rows, row, "epsCagr", "max"),
                        memberScore(rows, row, "fcfCagr", "max")>>
      health == <<memberScore(rows, row, "debtToEquity", "min"),
                  memberScore(rows, row, "interestCoverage", "max")>>
      sentiment == <<memberScore(rows, row, "insiderNetBuys", "max"),
                     memberScore(rows, row, "institutionalPct", "max"),
                     memberScore(rows, row, "shortInterestPct", "min"),
                     betaScore(rows, row)>>
      earnQuality == <<OrElse(bellScore(row.fcfToNi), defaultNeutral)>>
      subscoreValuation == weighted(valuation, <<I(1), I(1), I(1)>>)
      subscoreProfitability == weighted(profitability, <<Q(1, 2), Q(1, 4), Q(1, 4)>>)
      subscoreGrowth == weighted(growthScores, <<Q(2, 5), Q(2, 5), Q(1, 5)>>)
      subscoreHealth == weighted(health, <<Q(1, 2), Q(1, 2)>>)
      subscoreSentiment == weighted(sentiment, <<Q(2, 5), Q(3, 10), Q(1, 5), Q(1, 10)>>)
      subscoreEarnQuality == earnQuality[1]
      composite ==
        RAdd(RAdd(RAdd(RAdd(RAdd(RMul(subscoreValuation, Q(1, 4)),
                                 RMul(subscoreProfitability, Q(1, 5))),
                            RMul(subscoreGrowth, Q(1, 5))),
                       RMul(subscoreHealth, Q(3, 20))),
                  RMul(subscoreSentiment, Q(1, 10))),
             RMul(subscoreEarnQuality, Q(1, 10)))
  IN  [composite |-> MathRound(RMul(composite, I(100))),
       subscores |->
         [valuation |-> MathRound(RMul(subscoreValuation, I(100))),
          profitability |-> MathRound(RMul(subscoreProfitability, I(100))),
          growth |-> MathRound(RMul(subscoreGrowth, I(100))),
          health |-> MathRound(RMul(subscoreHealth, I(100))),
          sentiment |-> MathRound(RMul(subscoreSentiment, I(100))),
          earningsQuality |-> MathRound(RMul(subscoreEarnQuality, I(100)))]]

computeCompositeScores(rows) == [i \in 1..Len(rows) |-> scoreRow(rows, rows[i])]

\* the largest batch handed to computeCompositeScores
MaxRows == 2
\* a row is of one standing m: every max-is-better metric has the value m and
\* every min-is-better metric the value -m
MetricVals == {Null, I(1), I(3)}
ScoreBetaVals == {Null, I(0), I(1), I(3)}
FcfToNiVals == {Null, I(3)}
ScoreInputsOf(m, b, q) ==
  LET low == IF IsNull(m) THEN Null ELSE RNeg(m)
  IN  [pe |-> low, evEbitda |-> low, dcfVsPrice |-> m, roic |-> m, ebitMargin |-> m,
       roe |-> m, revenueCagr |-> m, epsCagr |-> m, fcfCagr |-> m,
       debtToEquity |-> low, interestCoverage |-> m, insiderNetBuys |-> m,
       institutionalPct |-> m, shortInterestPct |-> low, beta |-> b, fcfToNi |-> q]
ScoreRows ==
  {ScoreInputsOf(m, b, q) : m \in MetricVals, b \in ScoreBetaVals, q \in FcfToNiVals}

InitScores ==
  /\ pc = "call"
  /\ \E n \in 1..MaxRows :
       \E rows \in [1..n -> ScoreRows] :
         call = [fn |-> "computeCompositeScores", rows |-> rows]
  /\ ret = Null

CallComputeCompositeScores ==
  /\ pc = "call"
  /\ call.fn = "computeCompositeScores"
  /\ ret' = computeCompositeScores(call.rows)
  /\ pc' = "return"
  /\ UNCHANGED call

NextScores == CallComputeCompositeScores

SpecScores == InitScores /\ [][NextScores]_vars

(***************************************************************************)
(* deriveMetrics                                                           *)
(***************************************************************************)
safeDiv(numerator, denominator) ==
  IF IsNull(numerator) \/ IsNull(denominator) THEN Null
  ELSE IF denominator = I(0) THEN Null
  ELSE RDiv(numerator, denominator)

\* the number an arithmetic operator makes of its operand: null becomes 0
ToNumber(x) == IF IsNull(x) THEN I(0) ELSE x

\* total liabilities as the Altman Z uses them:
\* totalLiabilities ?? (totalAssets && totalEquity ? totalAssets - totalEquity : null)
altmanLiabilities(snapshot) ==
  OrElse(snapshot.totalLiabilities,
         IF Truthy(snapshot.totalAssets) /\ Truthy(snapshot.totalEquity)
         THEN RSub(snapshot.totalAssets, snapshot.totalEquity)
         ELSE Null)

altmanZ(snapshot) ==
  LET wc == IF ~IsNull(snapshot.currentAssets) /\ ~IsNull(snapshot.currentLiabilities)
            THEN RSub(snapshot.currentAssets, snapshot.currentLiabilities)
            ELSE Null
      re == snapshot.retainedEarnings
      ta == snapshot.totalAssets
      mve == snapshot.marketCap
      tl == altmanLiabilities(snapshot)
      sales == snapshot.revenue
  IN  IF /\ ~IsNull(wc) /\ ~IsNull(re) /\ ~IsNull(snapshot.ebit) /\ ~IsNull(mve)
         /\ ~IsNull(tl) /\ ~IsNull(sales) /\ ~IsNull(ta)
      THEN RAdd(RAdd(RAdd(RAdd(RMul(Q(6, 5), ToNumber(safeDiv(wc, ta))),
                               RMul(Q(7, 5), ToNumber(safeDiv(re, ta)))),
                          RMul(Q(33, 10), ToNumber(safeDiv(snapshot.ebit, ta)))),
                     RMul(Q(3, 5), ToNumber(safeDiv(mve, tl)))),
                RMul(I(1), ToNumber(safeDiv(sales, ta))))
      ELSE Null

deriveMetrics(snapshot) ==
  LET price == snapshot.price
      pe == IF Truthy(snapshot.epsTtm) /\ RLt(I(0), snapshot.epsTtm) /\ Truthy(price)
            THEN RDiv(price, snapshot.epsTtm) ELSE Null
      ev == IF Truthy(snapshot.marketCap) /\ ~IsNull(snapshot.totalDebt)
               /\ ~IsNull(snapshot.cash)
            THEN RSub(RAdd(snapshot.marketCap, snapshot.totalDebt), snapshot.cash)
            ELSE Null
      evEbitda == IF ~IsNull(ev) /\ Truthy(snapshot.ebitda) /\ RLt(I(0), snapshot.ebitda)
                  THEN RDiv(ev, snapshot.ebitda) ELSE Null
      investedCapital ==
        IF Truthy(snapshot.totalAssets) /\ ~IsNull(snapshot.currentLiabilities)
           /\ ~IsNull(snapshot.cash)
        THEN RSub(RSub(snapshot.totalAssets, snapshot.currentLiabilities), snapshot.cash)
        ELSE IF ~IsNull(snapshot.totalDebt) /\ ~IsNull(snapshot.totalEquity)
                /\ ~IsNull(snapshot.cash)
        THEN RSub(RAdd(snapshot.totalDebt, snapshot.totalEquity), snapshot.cash)
        ELSE Null
      taxRate == Q(1, 4)
      nopat == IF Truthy(snapshot.ebit) THEN RMul(snapshot.ebit, RSub(I(1), taxRate))
               ELSE Null
      roic == IF ~IsNull(nopat) /\ Truthy(investedCapital)
              THEN RDiv(nopat, investedCapital) ELSE Null
      grossMargin == IF Truthy(snapshot.revenue) /\ ~IsNull(snapshot.cogs)
                     THEN RDiv(RSub(snapshot.revenue, snapshot.cogs), snapshot.revenue)
                     ELSE Null
      ebitMargin == IF Truthy(snapshot.revenue) /\ Truthy(snapshot.ebit)
                    THEN RDiv(snapshot.ebit, snapshot.revenue) ELSE Null
      netMargin == IF Truthy(snapshot.revenue) /\ Truthy(snapshot.netIncome)
                   THEN RDiv(snapshot.netIncome, snapshot.revenue) ELSE Null
      roe == IF Truthy(snapshot.netIncome) /\ Truthy(snapshot.totalEquity)
             THEN RDiv(snapshot.netIncome, snapshot.totalEquity) ELSE Null
      debtToEquity == IF ~IsNull(snapshot.totalDebt) /\ Truthy(snapshot.totalEquity)
                      THEN RDiv(snapshot.totalDebt, snapshot.totalEquity) ELSE Null
      interestCoverage ==
        IF Truthy(snapshot.ebit) /\ Truthy(snapshot.interestExpense)
        THEN clamp(RDiv(snapshot.ebit, snapshot.interestExpense), I(-100), I(100))
        ELSE Null
      fcfToNi == IF Len(snapshot.fcfSeries) > 0 /\ Truthy(snapshot.fcfSeries[1])
                    /\ Truthy(snapshot.netIncome)
                 THEN RDiv(snapshot.fcfSeries[1], snapshot.netIncome) ELSE Null
  IN  [price |-> price, pe |-> pe, ev |-> ev, evEbitda |-> evEbitda, roic |-> roic,
       grossMargin |-> grossMargin, ebitMargin |-> ebitMargin, netMargin |-> netMargin,
       roe |-> roe, revenueCagr |-> growth(snapshot.revenueSeries),
       epsCagr |-> growth(snapshot.epsSeries), fcfCagr |-> growth(snapshot.fcfSeries),
       debtToEquity |-> debtToEquity, interestCoverage |-> interestCoverage,
       fcfToNi |-> fcfToNi, altmanZ |-> altmanZ(snapshot)]

\* a FinancialSnapshot with nothing known
EmptySnapshot ==
  [price |-> Null, marketCap |-> Null, sharesOutstanding |-> Null, epsTtm |-> Null,
   revenueSeries |-> <<>>, fcfSeries |-> <<>>, epsSeries |-> <<>>, ebit |-> Null,
   ebitda |-> Null, netIncome |-> Null, totalEquity |-> Null, totalAssets |-> Null,
   currentAssets |-> Null, currentLiabilities |-> Null, totalDebt |-> Null,
   cash |-> Null, interestExpense |-> Null, revenue |-> Null, cogs |-> Null,
   beta |-> Null, shortInterestPct |-> Null, insiderNetBuys |-> Null,
   institutionalPct |-> Null, fundFlows3M |-> Null, retainedEarnings |-> Null,
   totalLiabilities |-> Null]

\* values of a balance-sheet or income-statement field
FieldVals == {Null, I(0), I(4)}
EquityVals == {Null, I(0), I(1)}

\* snapshots that vary in the fields the Altman Z reads
InitAltman ==
  /\ pc = "call"
  /\ \E ca, cl, re, eb, mc, tl, rev, ta \in FieldVals :
       \E te \in EquityVals :
         call = [fn |-> "deriveMetrics",
                 snapshot |-> [EmptySnapshot EXCEPT
                                 !.currentAssets = ca, !.currentLiabilities = cl,
                                 !.retainedEarnings = re, !.ebit = eb,
                                 !.marketCap = mc, !.totalLiabilities = tl,
                                 !.revenue = rev, !.totalAssets = ta,
                                 !.totalEquity = te]]
  /\ ret = Null

CallDeriveMetrics ==
  /\ pc = "call"
  /\ call.fn = "deriveMetrics"
  /\ ret' = deriveMetrics(call.snapshot)
  /\ pc' = "return"
  /\ UNCHANGED call

NextAltman == CallDeriveMetrics

SpecAltman == InitAltman /\ [][NextAltman]_vars

(***************************************************************************)
(* computeCompositeScores on batches given in every order                  *)
(***************************************************************************)
\* the largest batch whose order is varied
MaxBatch == 3
OrderRows ==
  {ScoreInputsOf(m, I(1), I(3)) : m \in MetricVals}
    \cup {ScoreInputsOf(I(1), I(3), I(3)), ScoreInputsOf(I(3), Null, Null)}

InitScoresOrder ==
  /\ pc = "call"
  /\ \E n \in 1..MaxBatch :
       \E rows \in [1..n -> OrderRows] :
         call = [fn |-> "computeCompositeScores", rows |-> rows]
  /\ ret = Null

SpecScoresOrder == InitScoresOrder /\ [][NextScores]_vars

(***************************************************************************)
(* buildFinancialSnapshot                                                  *)
(* A raw record holds, for every `x?: { raw?: number }` of the response,   *)
(* the number or Null when the field or its raw value is absent.           *)
(***************************************************************************)
EmptyIncomeStatement ==
  [totalRevenue |-> Null, costOfRevenue |-> Null, ebit |-> Null, netIncome |-> Null,
   incomeBeforeTax |-> Null, incomeTaxExpense |-> Null, interestExpense |-> Null]
EmptyCashflowStatement ==
  [totalCashFromOperatingActivities |-> Null, capitalExpenditures |-> Null,
   freeCashFlow |-> Null, dividendsPaid |-> Null]
EmptyBalanceSheet ==
  [totalAssets |-> Null, totalCurrentAssets |-> Null, totalCurrentLiabilities |-> Null,
   totalShareholderEquity |-> Null, totalLiab |-> Null, retainedEarnings |-> Null,
   totalDebt |-> Null, cash |-> Null, netReceivables |-> Null, inventory |-> Null]
\* a response with every sub-structure absent
EmptyResponse ==
  [price |-> [regularMarketPrice |-> Null, marketCap |-> Null, beta |-> Null],
   financialData |->
     [totalDebt |-> Null, totalCash |-> Null, ebitda |-> Null,
      recommendationMean |-> Null],
   defaultKeyStatistics |->
     [sharesOutstanding |-> Null, trailingEps |-> Null, shortPercentOfFloat |-> Null,
      heldPercentInsiders |-> Null, heldPercentInstitutions |-> Null],
   incomeStatementHistory |-> <<>>,
   cashflowStatements |-> <<>>,
   balanceSheetStatements |-> <<>>]

\* list.slice(0, 3)
sliceThree(list) == SubSeq(list, 1, IF Len(list) < 3 THEN Len(list) ELSE 3)

\* list.filter((value) => value !== null)
RECURSIVE filterPresent(_, _)
filterPresent(list, k) ==
  IF k = 0 THEN <<>>
  ELSE IF IsNull(list[k]) THEN filterPresent(list, k - 1)
  ELSE Append(filterPresent(list, k - 1), list[k])

\* a deliberately wrong EPS of a period: net income over shares whatever they are
epsOfPeriod_unguarded(netIncome, shares) ==
  IF IsNull(netIncome) \/ IsNull(shares) THEN Null ELSE RDiv(netIncome, shares)

\* the EPS of a period: null if !netIncome || !shares
epsOfPeriod(netIncome, shares) ==
  IF ~Truthy(netIncome) \/ ~Truthy(shares) THEN Null ELSE RDiv(netIncome, shares)

\* a deliberately wrong FCF of a period: the reported figure only
fcfOfPeriod_reportedOnly(statement) == statement.freeCashFlow

\* the FCF of a period: the reported figure, else operating cash flow + capex
fcfOfPeriod(statement) ==
  IF ~IsNull(statement.freeCashFlow) THEN statement.freeCashFlow
  ELSE IF IsNull(statement.totalCashFromOperatingActivities)
          \/ IsNull(statement.capitalExpenditures)
  THEN Null
  ELSE RAdd(statement.totalCashFromOperatingActivities, statement.capitalExpenditures)

\* balanceSheets?.[0]?.field?.raw, incomeStatements?.[0]?.field?.raw
firstOf(list, field) == IF Len(list) = 0 THEN Null ELSE list[1][field]

buildFinancialSnapshot(data) ==
  LET incomeStatements == data.incomeStatementHistory
      balanceSheets == data.balanceSheetStatements
      cashflows == data.cashflowStatements
      income3 == sliceThree(incomeStatements)
      cash3 == sliceThree(cashflows)
      shares == data.defaultKeyStatistics.sharesOutstanding
      revenueSeries ==
        filterPresent([i \in 1..Len(income3) |-> income3[i].totalRevenue], Len(income3))
      epsSeries ==
        filterPresent([i \in 1..Len(income3) |-> epsOfPeriod(income3[i].netIncome, shares)],
                      Len(income3))
      fcfSeries ==
        filterPresent([i \in 1..Len(cash3) |-> fcfOfPeriod(cash3[i])], Len(cash3))
  IN  [price |-> data.price.regularMarketPrice,
       marketCap |-> data.price.marketCap,
       sharesOutstanding |-> shares,
       epsTtm |-> data.defaultKeyStatistics.trailingEps,
       revenueSeries |-> revenueSeries,
       fcfSeries |-> fcfSeries,
       epsSeries |-> epsSeries,
       ebit |-> firstOf(incomeStatements, "ebit"),
       ebitda |-> data.financialData.ebitda,
       netIncome |-> firstOf(incomeStatements, "netIncome"),
       totalEquity |-> firstOf(balanceSheets, "totalShareholderEquity"),
       totalAssets |-> firstOf(balanceSheets, "totalAssets"),
       currentAssets |-> firstOf(balanceSheets, "totalCurrentAssets"),
       currentLiabilities |-> firstOf(balanceSheets, "totalCurrentLiabilities"),
       totalDebt |-> OrElse(firstOf(balanceSheets, "totalDebt"), data.financialData.totalDebt),
       cash |-> OrElse(firstOf(balanceSheets, "cash"), data.financialData.totalCash),
       interestExpense |-> firstOf(incomeStatements, "interestExpense"),
       revenue |-> firstOf(incomeStatements, "totalRevenue"),
       cogs |-> firstOf(incomeStatements, "costOfRevenue"),
       beta |-> data.price.beta,
       shortInterestPct |-> data.defaultKeyStatistics.shortPercentOfFloat,
       insiderNetBuys |-> data.defaultKeyStatistics.heldPercentInsiders,
       institutionalPct |-> data.defaultKeyStatistics.heldPercentInstitutions,
       fundFlows3M |-> Null,
       retainedEarnings |-> firstOf(balanceSheets, "retainedEarnings"),
       totalLiabilities |-> firstOf(balanceSheets, "totalLiab")]

\* the most periods a statement history holds
MaxStatements == 4
NetIncomeVals == {Null, I(0), I(4), I(8)}
SharesVals == {Null, I(0), I(2)}
ReportedFcfVals == {Null, I(0), I(5)}
OperatingCashFlowVals == {Null, I(6)}
CapexVals == {Null, I(-2)}
IncomeStatements ==
  {[EmptyIncomeStatement EXCEPT !.netIncome = ni, !.totalRevenue = ni] :
     ni \in NetIncomeVals}
CashflowStatements ==
  {[EmptyCashflowStatement EXCEPT
      !.totalCashFromOperatingActivities = ocf, !.capitalExpenditures = capex,
      !.freeCashFlow = fcf] :
     ocf \in OperatingCashFlowVals, capex \in CapexVals, fcf \in ReportedFcfVals}

\* a response varies in its income statements and shares outstanding, or in
\* its cash-flow statements
InitSnapshot ==
  /\ pc = "call"
  /\ \E n \in 0..MaxStatements :
       \/ \E statements \in [1..n -> IncomeStatements] : \E shares \in SharesVals :
            call = [fn |-> "buildFinancialSnapshot",
                    data |-> [EmptyResponse EXCEPT
                                !.incomeStatementHistory = statements,
                                !.defaultKeyStatistics.sharesOutstanding = shares]]
       \/ \E statements \in [1..n -> CashflowStatements] :
            call = [fn |-> "buildFinancialSnapshot",
                    data |-> [EmptyResponse EXCEPT !.cashflowStatements = statements]]
  /\ ret = Null

CallBuildFinancialSnapshot ==
  /\ pc = "call"
  /\ call.fn = "buildFinancialSnapshot"
  /\ ret' = buildFinancialSnapshot(call.data)
  /\ pc' = "return"
  /\ UNCHANGED call

\* const metrics = deriveMetrics(snapshot), on the snapshot just built
CallDeriveMetricsOfSnapshot ==
  /\ pc = "return"
  /\ call.fn = "buildFinancialSnapshot"
  /\ call' = [fn |-> "deriveMetrics", snapshot |-> ret, data |-> call.data]
  /\ ret' = deriveMetrics(ret)
  /\ UNCHANGED pc

NextSnapshot == CallBuildFinancialSnapshot \/ CallDeriveMetricsOfSnapshot

SpecSnapshot == InitSnapshot /\ [][NextSnapshot]_vars

(***************************************************************************)
(* deriveMetrics on snapshots that vary in the inputs of the ratios        *)
(***************************************************************************)
EpsTtmVals == {Null, I(0), I(-2), I(2)}
FcfSeriesVals == {<<>>, <<I(0)>>, <<I(4)>>}

\* a snapshot varies in the inputs of P/E and enterprise value, or in those of
\* the margins, ROE, leverage, coverage and FCF/net income, or in those of ROIC
InitRatios ==
  /\ pc = "call"
  /\ \/ \E price, marketCap, totalDebt, cash \in FieldVals : \E epsTtm \in EpsTtmVals :
          call = [fn |-> "deriveMetrics",
                  snapshot |-> [EmptySnapshot EXCEPT
                                  !.price = price, !.epsTtm = epsTtm,
                                  !.marketCap = marketCap, !.totalDebt = totalDebt,
                                  !.cash = cash]]
     \/ \E ebit, revenue, netIncome, totalEquity, interestExpense, totalDebt \in FieldVals :
          \E fcfSeries \in FcfSeriesVals :
            call = [fn |-> "deriveMetrics",
                    snapshot |-> [EmptySnapshot EXCEPT
                                    !.ebit = ebit, !.revenue = revenue,
                                    !.netIncome = netIncome, !.totalEquity = totalEquity,
                                    !.interestExpense = interestExpense,
                                    !.totalDebt = totalDebt, !.fcfSeries = fcfSeries]]
     \/ \E ebit, totalAssets, currentLiabilities, cash, totalDebt \in FieldVals :
          \E totalEquity \in EquityVals :
            call = [fn |-> "deriveMetrics",
                    snapshot |-> [EmptySnapshot EXCEPT
                                    !.ebit = ebit, !.totalAssets = totalAssets,
                                    !.currentLiabilities = currentLiabilities,
                                    !.cash = cash, !.totalDebt = totalDebt,
                                    !.totalEquity = totalEquity]]
  /\ ret = Null

NextRatios == CallDeriveMetrics

SpecRatios == InitRatios /\ [][NextRatios]_vars

(***************************************************************************)
(* estimateWacc of src/cli.ts and estimateWacc of processRows              *)
(***************************************************************************)
\* src/cli.ts: clamp of baseRate + (beta ?? 1) * marketPremium to [6%, 14%]
estimateWacc(beta) ==
  LET baseRate == Q(1, 50)
      marketPremium == Q(1, 20)
      effectiveBeta == OrElse(beta, I(1))
      raw == RAdd(baseRate, RMul(effectiveBeta, marketPremium))
  IN  RMin(RMax(raw, Q(3, 50)), Q(7, 50))

REGION_WACC_BASE == Q(2, 25)

\* processRows: the base for a missing beta, else the clamp of
\* base + (beta - 1) * 0.01 to [floor, ceiling]
processRowsEstimateWacc(beta, floor, ceiling) ==
  LET base == REGION_WACC_BASE
  IN  IF IsNull(beta) THEN base
      ELSE LET estimated == RAdd(base, RMul(RSub(beta, I(1)), Q(1, 100)))
           IN  RMin(RMax(estimated, floor), ceiling)

WaccBetaVals == {Null, I(-40), I(-3), I(0), Q(1, 2), I(1), I(2), I(3), I(8), I(40)}
WaccLimitVals == {Q(1, 20), Q(3, 50), Q(2, 25), Q(9, 100), Q(7, 50)}

InitWacc ==
  /\ pc = "call"
  /\ \/ \E beta \in WaccBetaVals : call = [fn |-> "cli.estimateWacc", beta |-> beta]
     \/ \E beta \in WaccBetaVals : \E floor, ceiling \in WaccLimitVals :
          /\ RLe(floor, ceiling)
          /\ call = [fn |-> "processRows.estimateWacc", beta |-> beta,
                     floor |-> floor, ceiling |-> ceiling]
  /\ ret = Null

CallEstimateWacc ==
  /\ pc = "call"
  /\ call.fn = "cli.estimateWacc"
  /\ ret' = estimateWacc(call.beta)
  /\ pc' = "return"
  /\ UNCHANGED call

CallProcessRowsEstimateWacc ==
  /\ pc = "call"
  /\ call.fn = "processRows.estimateWacc"
  /\ ret' = processRowsEstimateWacc(call.beta, call.floor, call.ceiling)
  /\ pc' = "return"
  /\ UNCHANGED call

NextWacc == CallEstimateWacc \/ CallProcessRowsEstimateWacc

SpecWacc == InitWacc /\ [][NextWacc]_vars

(***************************************************************************)
(* src/cli.ts: main, parseRows, resolveEntry, fetchEntry, buildOutput, and *)
(* fetchYahooBundle of lib/yahoo.ts.  An absent string is `undefined`; the *)
(* string functions are tabulated on the strings of the model.             *)
(***************************************************************************)
undefined == "undefined"
\* truthiness of string | undefined
StrTruthy(s) == s # undefined /\ s # ""

trim(s) ==
  CASE s = " de01 " -> "de01"
    [] s = " " -> ""
    [] OTHER -> s
toUpperCase(s) ==
  CASE s = "de01" -> "DE01"
    [] s = "fr02" -> "FR02"
    [] s = "sap .de" -> "SAP .DE"
    [] OTHER -> s
\* value.replace(/\s+/g, '')
removeWhitespace(s) ==
  CASE s = "SAP .DE" -> "SAP.DE"
    [] OTHER -> s
normalizeTicker(value) == removeWhitespace(toUpperCase(trim(value)))

\* message.includes('404') || message.includes('Not Found')
includesNotFound(message) == message \in {"Not Found", "HTTPError: 404"}

\* what yahoo.quoteSummary does on one request: it resolves, with or without
\* data, or throws an error with a message
SampleResponse ==
  [EmptyResponse EXCEPT
     !.price = [regularMarketPrice |-> I(100), marketCap |-> I(400), beta |-> I(2)],
     !.financialData.recommendationMean = I(2),
     !.defaultKeyStatistics.sharesOutstanding = I(2000000),
     !.defaultKeyStatistics.trailingEps = I(5),
     !.incomeStatementHistory =
        <<[EmptyIncomeStatement EXCEPT !.totalRevenue = I(8), !.netIncome = I(4),
             !.incomeBeforeTax = I(4), !.incomeTaxExpense = I(1)],
          [EmptyIncomeStatement EXCEPT !.totalRevenue = I(4), !.netIncome = I(2)]>>,
     !.cashflowStatements =
        <<[EmptyCashflowStatement EXCEPT
             !.totalCashFromOperatingActivities = I(6), !.dividendsPaid = I(-2)],
          [EmptyCashflowStatement EXCEPT !.dividendsPaid = I(-1)]>>,
     !.balanceSheetStatements =
        <<[EmptyBalanceSheet EXCEPT !.totalAssets = I(4), !.inventory = I(1)]>>]
ThrownMessages == {"Not Found", "Too Many Requests", ""}
FetchOutcomes ==
  {[kind |-> "resolves", hasData |-> TRUE, data |-> SampleResponse, message |-> undefined],
   [kind |-> "resolves", hasData |-> FALSE, data |-> EmptyResponse, message |-> undefined]}
    \cup {[kind |-> "throws", hasData |-> FALSE, data |-> EmptyResponse, message |-> m] :
            m \in ThrownMessages}

\* the { data?, error? } fetchYahooBundle returns for what the request did
fetchYahooBundle(ticker, outcome) ==
  IF outcome.kind = "resolves"
  THEN [hasData |-> outcome.hasData, data |-> outcome.data, error |-> undefined]
  ELSE IF includesNotFound(outcome.message)
  THEN [hasData |-> FALSE, data |-> EmptyResponse,
        error |-> "Quote not found for symbol: " \o ticker]
  ELSE [hasData |-> FALSE, data |-> EmptyResponse, error |-> outcome.message]

NumericColumns ==
  {"Price", "Shares_Out (M)", "Total_Debt", "Cash", "EBITDA", "EBIT", "Net_Income",
   "Revenue", "COGS", "Total_Equity", "Total_Assets", "OCF", "FCF", "Dividends_Paid",
   "Interest_Expense", "Current_Assets", "Current_Liabilities", "Receivables",
   "Inventory", "WACC", "Tax_Rate", "DCF_Value_per_Share", "Insider_Net_Buys",
   "Institutional_%", "Fund_Flows_3M (M)", "Short_Interest_%", "Analyst_Rating(1-5)",
   "Beta", "EPS_ttm", "EPS_CAGR_3Y", "Revenue_CAGR_3Y", "FCF_CAGR_3Y",
   "Dividend_CAGR_3Y", "Altman_Z"}

\* dividends of the first 3 periods: Math.abs of the present ones, those > 0 kept
RECURSIVE dividendsSeries(_, _)
dividendsSeries(statements, k) ==
  IF k = 0 THEN <<>>
  ELSE LET value == statements[k].dividendsPaid
       IN  IF ~IsNull(value) /\ RLt(I(0), RAbs(value))
           THEN Append(dividendsSeries(statements, k - 1), RAbs(value))
           ELSE dividendsSeries(statements, k - 1)

\* the numeric columns of an ok row
okColumns(data) ==
  LET snapshot == buildFinancialSnapshot(data)
      metrics == deriveMetrics(snapshot)
      cashflow == IF Len(data.cashflowStatements) = 0 THEN EmptyCashflowStatement
                  ELSE data.cashflowStatements[1]
      income == IF Len(data.incomeStatementHistory) = 0 THEN EmptyIncomeStatement
                ELSE data.incomeStatementHistory[1]
      fcf == OrElse(cashflow.freeCashFlow,
                    IF ~IsNull(cashflow.totalCashFromOperatingActivities)
                       /\ ~IsNull(cashflow.capitalExpenditures)
                    THEN RAdd(cashflow.totalCashFromOperatingActivities,
                              cashflow.capitalExpenditures)
                    ELSE Null)
      cash3 == sliceThree(data.cashflowStatements)
      dividendCagr == computeSeriesCagr(dividendsSeries(cash3, Len(cash3)))
      wacc == estimateWacc(snapshot.beta)
      dcfValue == computeDCF(snapshot, wacc, Q(1, 50))
      taxRate == IF Truthy(income.incomeBeforeTax) /\ ~IsNull(income.incomeTaxExpense)
                 THEN RMax(I(0), RMin(I(1), RDiv(income.incomeTaxExpense,
                                                 income.incomeBeforeTax)))
                 ELSE Null
  IN  [c \in NumericColumns |->
         CASE c = "Price" -> snapshot.price
           [] c = "Shares_Out (M)" ->
                IF Truthy(snapshot.sharesOutstanding)
                THEN RDiv(snapshot.sharesOutstanding, I(1000000)) ELSE Null
           [] c = "Total_Debt" -> snapshot.totalDebt
           [] c = "Cash" -> snapshot.cash
           [] c = "EBITDA" -> snapshot.ebitda
           [] c = "EBIT" -> snapshot.ebit
           [] c = "Net_Income" -> snapshot.netIncome
           [] c = "Revenue" -> snapshot.revenue
           [] c = "COGS" -> snapshot.cogs
           [] c = "Total_Equity" -> snapshot.totalEquity
           [] c = "Total_Assets" -> snapshot.totalAssets
           [] c = "OCF" -> cashflow.totalCashFromOperatingActivities
           [] c = "FCF" -> fcf
           [] c = "Dividends_Paid" -> cashflow.dividendsPaid
           [] c = "Interest_Expense" -> snapshot.interestExpense
           [] c = "Current_Assets" -> snapshot.currentAssets
           [] c = "Current_Liabilities" -> snapshot.currentLiabilities
           [] c = "Receivables" -> firstOf(data.balanceSheetStatements, "netReceivables")
           [] c = "Inventory" -> firstOf(data.balanceSheetStatements, "inventory")
           [] c = "WACC" -> wacc
           [] c = "Tax_Rate" -> taxRate
           [] c = "DCF_Value_per_Share" -> dcfValue
           [] c = "Insider_Net_Buys" -> snapshot.insiderNetBuys
           [] c = "Institutional_%" -> snapshot.institutionalPct
           [] c = "Fund_Flows_3M (M)" -> Null
           [] c = "Short_Interest_%" -> snapshot.shortInterestPct
           [] c = "Analyst_Rating(1-5)" -> data.financialData.recommendationMean
           [] c = "Beta" -> snapshot.beta
           [] c = "EPS_ttm" -> snapshot.epsTtm
           [] c = "EPS_CAGR_3Y" -> metrics.epsCagr
           [] c = "Revenue_CAGR_3Y" -> metrics.revenueCagr
           [] c = "FCF_CAGR_3Y" -> metrics.fcfCagr
           [] c = "Dividend_CAGR_3Y" -> dividendCagr
           [] c = "Altman_Z" -> metrics.altmanZ]

buildOutput(ticker, input, hasData, data, status, message, meta) ==
  IF ~hasData \/ status = "error"
  THEN [Input |-> input, Ticker |-> ticker, ISIN |-> meta.isin, Name |-> meta.name,
        Market |-> meta.market, Currency |-> meta.currency,
        numeric |-> [c \in NumericColumns |-> Null],
        Status |-> "error",
        Message |-> IF message = undefined THEN "Unresolved ticker or missing data"
                    ELSE message]
  ELSE [Input |-> input, Ticker |-> ticker, ISIN |-> meta.isin, Name |-> meta.name,
        Market |-> meta.market, Currency |-> meta.currency,
        numeric |-> okColumns(data),
        Status |-> "ok",
        Message |-> message]

\* the row of an entry that has no ticker: nothing is fetched
missingSymbolRow(entry) ==
  buildOutput(entry.isin, entry.input, FALSE, EmptyResponse, "error",
              "Missing 'Symbol' (ticker) in input file for ISIN " \o entry.isin,
              entry.meta)

\* the row of an entry whose ticker was fetched with the result yahoo
fetchedRow(entry, yahoo) ==
  LET mappedTicker == entry.meta.symbol
  IN  IF StrTruthy(yahoo.error) \/ ~yahoo.hasData
      THEN buildOutput(mappedTicker, entry.input, FALSE, EmptyResponse, "error",
                       "Yahoo fetch failed for " \o mappedTicker \o ": "
                         \o (IF yahoo.error = undefined THEN "Missing Yahoo data"
                             ELSE yahoo.error),
                       entry.meta)
      ELSE buildOutput(mappedTicker, entry.input, TRUE, yahoo.data, "ok", undefined,
                       entry.meta)

\* row.ISIN?.trim() is a non-empty string
hasIsin(row) == row.ISIN # undefined /\ StrTruthy(trim(row.ISIN))

trimmedOrUndefined(s) ==
  IF StrTruthy(s) /\ StrTruthy(trim(s)) THEN trim(s) ELSE undefined

\* resolveEntry of a row that has an ISIN
resolveEntry(row) ==
  LET normalizedIsin == toUpperCase(trim(row.ISIN))
  IN  [input |-> normalizedIsin, isin |-> normalizedIsin,
       meta |-> [isin |-> normalizedIsin,
                 symbol |-> IF StrTruthy(row.Symbol) THEN normalizeTicker(row.Symbol)
                            ELSE undefined,
                 name |-> trimmedOrUndefined(row.Name),
                 market |-> trimmedOrUndefined(row.Market),
                 currency |-> trimmedOrUndefined(row.Currency)]]

\* the entries parseRows returns when no row lacks an ISIN
RECURSIVE parseRows(_, _)
parseRows(rows, k) ==
  IF k = 0 THEN <<>> ELSE Append(parseRows(rows, k - 1), resolveEntry(rows[k]))

\* (program.args).map(trim, toUpperCase).filter(length > 0), each as an entry
RECURSIVE argEntries(_, _)
argEntries(args, k) ==
  IF k = 0 THEN <<>>
  ELSE LET value == toUpperCase(trim(args[k]))
       IN  IF value = "" THEN argEntries(args, k - 1)
           ELSE Append(argEntries(args, k - 1),
                       [input |-> value, isin |-> value,
                        meta |-> [isin |-> value, symbol |-> undefined,
                                  name |-> undefined, market |-> undefined,
                                  currency |-> undefined]])

\* the most rows of the input file, the most positional ISINs
MaxCsvRows == 2
MaxArgIsins == 1
CsvIsinVals == {undefined, "DE01", "fr02"}
CsvSymbolVals == {undefined, "sap .de", "XX"}
ArgIsinVals == {" de01 ", "FR02", " "}
CsvRows ==
  {[ISIN |-> isin, Symbol |-> symbol, Name |-> undefined, Market |-> undefined,
    Currency |-> undefined] : isin \in CsvIsinVals, symbol \in CsvSymbolVals}
\* the lookup map loadIsinMap returns: ISIN DE01 is SAP.DE, FR02 is not in it
IsinMap == [isin \in {"DE01"} |-> "SAP.DE"]

InitCli ==
  /\ pc = "call"
  /\ \E n \in 0..MaxCsvRows : \E rows \in [1..n -> CsvRows] :
       \E m \in 0..MaxArgIsins : \E args \in [1..m -> ArgIsinVals] :
         \E given \in BOOLEAN :
           /\ (n > 0 => given)
           /\ call = [fn |-> "main", inputGiven |-> given, rows |-> rows,
                      args |-> args, isinMap |-> IsinMap]
  /\ ret = Null

\* main up to the loop: the entries of the input file, then those of the
\* positional ISINs; an error ends the run
MainStart ==
  /\ pc = "call"
  /\ call.fn = "main"
  /\ LET missing == {i \in 1..Len(call.rows) : ~hasIsin(call.rows[i])}
         entries == parseRows(call.rows, Len(call.rows))
                      \o argEntries(call.args, Len(call.args))
     IN  IF missing # {}
         THEN /\ pc' = "exit"
              /\ ret' = [error |-> "Input file is missing ISIN values on rows"]
         ELSE IF Len(entries) = 0
         THEN /\ pc' = "exit"
              /\ ret' = [error |-> IF call.inputGiven THEN "No ISIN values found in input"
                                   ELSE "No ISIN values provided"]
         ELSE /\ pc' = "loop"
              /\ ret' = [entries |-> entries, results |-> <<>>, requests |-> <<>>]
  /\ UNCHANGED call

\* a deliberately wrong turn of the loop: a failed entry ends the run
FetchEntry_abortsOnFailure ==
  /\ pc = "loop"
  /\ Len(ret.results) < Len(ret.entries)
  /\ LET entry == ret.entries[Len(ret.results) + 1]
     IN  IF ~StrTruthy(entry.meta.symbol)
         THEN /\ ret' = [ret EXCEPT !.results = Append(@, missingSymbolRow(entry))]
              /\ pc' = "return"
         ELSE \E outcome \in FetchOutcomes :
                LET row == fetchedRow(entry, fetchYahooBundle(entry.meta.symbol, outcome))
                IN  /\ ret' = [ret EXCEPT !.requests = Append(@, entry.meta.symbol),
                                          !.results = Append(@, row)]
                    /\ pc' = IF row.Status = "error" THEN "return" ELSE pc
  /\ UNCHANGED call

\* one turn of the loop: const row = await fetchEntry(entry, ...);
\* results.push(row).  requests lists the tickers asked of Yahoo.
FetchEntry ==
  /\ pc = "loop"
  /\ Len(ret.results) < Len(ret.entries)
  /\ LET entry == ret.entries[Len(ret.results) + 1]
     IN  IF ~StrTruthy(entry.meta.symbol)
         THEN ret' = [ret EXCEPT !.results = Append(@, missingSymbolRow(entry))]
         ELSE \E outcome \in FetchOutcomes :
                ret' = [ret EXCEPT
                          !.requests = Append(@, entry.meta.symbol),
                          !.results =
                             Append(@, fetchedRow(entry,
                                                  fetchYahooBundle(entry.meta.symbol,
                                                                   outcome)))]
  /\ UNCHANGED <<pc, call>>

\* after the loop the rows are written out and main returns
MainOutput ==
  /\ pc = "loop"
  /\ Len(ret.results) = Len(ret.entries)
  /\ pc' = "return"
  /\ UNCHANGED <<call, ret>>

NextCli == MainStart \/ FetchEntry \/ MainOutput

SpecCli == InitCli /\ [][NextCli]_vars

(***************************************************************************)
(* processRows: the rows are fetched batch by batch, the fetches of one    *)
(* batch run concurrently (Promise.all over async callbacks), and the      *)
(* composite scores are computed after the last batch.  A step of the      *)
(* model is one run-to-completion stretch of the JavaScript: from a call   *)
(* or a resumption to the next await.  Timestamps of log items are left    *)
(* out.                                                                    *)
(***************************************************************************)
\* a compositeInput of null
NoScoreInputs == ScoreInputsOf(Null, Null, Null)
NoSubscores ==
  [valuation |-> Null, profitability |-> Null, growth |-> Null, health |-> Null,
   sentiment |-> Null, earningsQuality |-> Null]
NoForwardView == [base |-> Null, bull |-> Null, bear |-> Null, confidence |-> Null]
MetricNames ==
  {"price", "pe", "evEbitda", "roic", "ebitMargin", "roe", "revenueCagr", "epsCagr",
   "fcfCagr", "debtToEquity", "interestCoverage", "fcfToNi", "altmanZ", "dcfVsPrice",
   "return1M", "return3M", "return6M", "distanceFromHigh", "distanceFromLow"}

\* a MetricRow: keys are the properties the object has; a property that is
\* undefined, or that the object lacks, holds Null (undefined for a string)
errorResult(ticker, statusMessage) ==
  [row |-> [keys |-> {"ticker", "status", "statusMessage"},
            ticker |-> ticker, status |-> "error", statusMessage |-> statusMessage,
            compositeScore |-> Null, subscores |-> NoSubscores,
            momentumTag |-> undefined, expReturn6M |-> NoForwardView,
            metrics |-> [m \in MetricNames |-> Null]],
   hasInput |-> FALSE,
   compositeInput |-> NoScoreInputs]

\* lines 90-147: the row and the compositeInput made of the values computed
\* for a row.  yahoo.history is undefined (fetchYahooBundle returns { data }
\* or { error }), so momentum is null
okResultOfValues(ticker, snapshot, metrics, dcfVsPrice, forward) ==
  [row |-> [keys |-> {"ticker", "status", "compositeScore", "subscores",
                      "momentumTag", "expReturn6M", "metrics"},
            ticker |-> ticker, status |-> "ok", statusMessage |-> undefined,
            compositeScore |-> Null, subscores |-> NoSubscores,
            momentumTag |-> "null", expReturn6M |-> forward,
            metrics |->
              [m \in MetricNames |->
                 IF m \in {"return1M", "return3M", "return6M", "distanceFromHigh",
                           "distanceFromLow"} THEN Null
                 ELSE IF m = "dcfVsPrice" THEN dcfVsPrice
                 ELSE metrics[m]]],
   hasInput |-> TRUE,
   compositeInput |->
     [pe |-> metrics.pe, evEbitda |-> metrics.evEbitda, dcfVsPrice |-> dcfVsPrice,
      roic |-> metrics.roic, ebitMargin |-> metrics.ebitMargin, roe |-> metrics.roe,
      revenueCagr |-> metrics.revenueCagr, epsCagr |-> metrics.epsCagr,
      fcfCagr |-> metrics.fcfCagr, debtToEquity |-> metrics.debtToEquity,
      interestCoverage |-> metrics.interestCoverage,
      insiderNetBuys |-> snapshot.insiderNetBuys,
      institutionalPct |-> snapshot.institutionalPct,
      shortInterestPct |-> snapshot.shortInterestPct,
      beta |-> snapshot.beta, fcfToNi |-> metrics.fcfToNi]]

\* line 79: dcfValue && snapshot.price ? (dcfValue / snapshot.price - 1) * 100 : null
dcfVsPriceOf(dcfValue, price) ==
  IF Truthy(dcfValue) /\ Truthy(price)
  THEN RMul(RSub(RDiv(dcfValue, price), I(1)), I(100))
  ELSE Null

\* lines 78-88: the DCF and the forward view of a row
okResultOfMetrics(ticker, snapshot, metrics, wacc, options) ==
  okResultOfValues(
    ticker, snapshot, metrics,
    dcfVsPriceOf(computeDCF(snapshot, wacc, options.terminalGrowth), snapshot.price),
    computeForwardView([price |-> metrics.price, pe |-> metrics.pe,
                        epsCagr |-> metrics.epsCagr, peMedian |-> metrics.pe,
                        beta |-> snapshot.beta, wacc |-> wacc]))

\* lines 76-77: the metrics and the WACC of a row
okResultOfSnapshot(ticker, snapshot, options) ==
  okResultOfMetrics(
    ticker, snapshot, deriveMetrics(snapshot),
    processRowsEstimateWacc(snapshot.beta, options.waccFloor, options.waccCeiling),
    options)

\* lines 75-147: the result of a row whose data arrived
okResult(ticker, yahoo, options) ==
  okResultOfSnapshot(ticker, buildFinancialSnapshot(yahoo.data), options)

\* lines 64-147: what the callback returns once line 63 is behind it
fetchedResult(ticker, yahoo, options) ==
  IF StrTruthy(yahoo.error) \/ ~yahoo.hasData
  THEN errorResult(ticker, IF yahoo.error = undefined THEN "Missing Yahoo data"
                           ELSE yahoo.error)
  ELSE okResult(ticker, yahoo, options)

\* rows.slice(i, i + batchSize), as the indices of the rows (from 1)
batchOf(rows, i, batchSize) ==
  {j \in 1..Len(rows) : i < j /\ j <= i + batchSize}

\* a deliberately wrong selection: every intermediate is a target
compositeTargets_everyRow(intermediates, k) == [j \in 1..k |-> j]

\* lines 154-156: the indices of the intermediates that have a compositeInput
RECURSIVE compositeTargets(_, _)
compositeTargets(intermediates, k) ==
  IF k = 0 THEN <<>>
  ELSE IF intermediates[k].hasInput
  THEN Append(compositeTargets(intermediates, k - 1), k)
  ELSE compositeTargets(intermediates, k - 1)

\* lines 158-169: the rows returned, scored where there is a target
scoredRows(intermediates) ==
  LET targets == compositeTargets(intermediates, Len(intermediates))
      compositeResults ==
        IF Len(targets) = 0 THEN <<>>
        ELSE computeCompositeScores(
               [idx \in 1..Len(targets) |-> intermediates[targets[idx]].compositeInput])
  IN  [index \in 1..Len(intermediates) |->
         IF \E idx \in 1..Len(targets) : targets[idx] = index
         THEN LET idx == CHOOSE t \in 1..Len(targets) : targets[t] = index
              IN  [intermediates[index].row EXCEPT
                     !.compositeScore = compositeResults[idx].composite,
                     !.subscores = compositeResults[idx].subscores]
         ELSE intermediates[index].row]

\* the most rows of a run
MaxInputRows == 3
BatchSizeVals == {1, 2, 3}
InputRows ==
  {[input |-> "IE00", ticker |-> undefined],
   [input |-> "AAA", ticker |-> "AAA"],
   [input |-> "BBB", ticker |-> "BBB"]}
\* a second answer of Yahoo, of a dearer and less risky company
OtherResponse ==
  [SampleResponse EXCEPT
     !.price = [regularMarketPrice |-> I(200), marketCap |-> I(800), beta |-> I(1)]]
\* what yahoo.quoteSummary does on one request of processRows: it resolves
\* with one of two answers, or throws
ProcessRowsOutcomes ==
  {[kind |-> "resolves", hasData |-> TRUE, data |-> SampleResponse, message |-> undefined],
   [kind |-> "resolves", hasData |-> TRUE, data |-> OtherResponse, message |-> undefined],
   [kind |-> "throws", hasData |-> FALSE, data |-> EmptyResponse,
    message |-> "Too Many Requests"]}
ProcessOptions ==
  {[batchSize |-> b, maxQps |-> 1, waccFloor |-> Q(3, 50), waccCeiling |-> Q(7, 50),
    terminalGrowth |-> Q(1, 50)] : b \in BatchSizeVals}
noResult == errorResult("", "")
logItem(stage, batch, names, ticker) ==
  [level |-> "info", stage |-> stage, batch |-> batch, names |-> names,
   ticker |-> ticker]

\* nativeSpread: how the build compiles line 63, logs.push(...yahoo.logs),
\* where yahoo.logs is undefined because fetchYahooBundle returns no logs.
\* Kept as spread syntax (targets from ES2015) it throws a TypeError; lowered
\* to logs.push.apply(logs, yahoo.logs) (target ES5) it pushes nothing.
InitProcessRows ==
  /\ pc = "call"
  /\ \E n \in 0..MaxInputRows : \E rows \in [1..n -> InputRows] :
       \E options \in ProcessOptions : \E nativeSpread \in BOOLEAN :
         call = [fn |-> "processRows", rows |-> rows, options |-> options,
                 nativeSpread |-> nativeSpread]
  /\ ret = Null

\* lines 36-37: logs and intermediates are empty, no callback has run.
\* tasks[j] is where the callback of row j stands, results[j] what it
\* returned, scorerCalls counts the calls of computeCompositeScores
ProcessRowsStart ==
  /\ pc = "call"
  /\ call.fn = "processRows"
  /\ ret' = [i |-> 0,
             tasks |-> [j \in 1..Len(call.rows) |-> "idle"],
             results |-> [j \in 1..Len(call.rows) |-> noResult],
             intermediates |-> <<>>,
             logs |-> <<>>,
             scorerCalls |-> 0,
             rows |-> <<>>]
  /\ pc' = "loop"
  /\ UNCHANGED call

\* lines 39-62: the next batch is sliced and logged and batch.map runs every
\* callback up to its first await: a row without ticker returns its error
\* at once, the others are waiting for fetchYahooBundle
StartBatch ==
  /\ pc = "loop"
  /\ call.fn = "processRows"
  /\ ret.i < Len(call.rows)
  /\ LET batch == batchOf(call.rows, ret.i, call.options.batchSize)
     IN  ret' = [ret EXCEPT
                   !.logs = Append(@, logItem("fetch", (ret.i \div call.options.batchSize) + 1,
                                              Cardinality(batch), undefined)),
                   !.tasks = [j \in DOMAIN @ |->
                                IF j \notin batch THEN @[j]
                                ELSE IF StrTruthy(call.rows[j].ticker) THEN "fetching"
                                ELSE "resolved"],
                   !.results = [j \in DOMAIN @ |->
                                  IF j \in batch /\ ~StrTruthy(call.rows[j].ticker)
                                  THEN errorResult(call.rows[j].input,
                                                   "Ticker could not be resolved")
                                  ELSE @[j]]]
  /\ pc' = "await"
  /\ UNCHANGED call

\* lines 109-147: the callback of row j returns result; the row of data
\* that arrived is logged
callbackReturns(j, result) ==
  [ret EXCEPT
     !.tasks[j] = "resolved",
     !.results[j] = result,
     !.logs = IF result.hasInput
              THEN Append(@, logItem("compute", 0, 0, call.rows[j].ticker))
              ELSE @]

\* lines 62-147: the fetch of one waiting row returns, in any order among
\* the rows of the batch, and its callback runs to its end.  The fetches
\* still in flight return even after processRows has rejected.
FetchReturns ==
  /\ pc \in {"await", "rejected"}
  /\ call.fn = "processRows"
  /\ \E j \in 1..Len(call.rows) : \E outcome \in ProcessRowsOutcomes :
       /\ ret.tasks[j] = "fetching"
       /\ ret' = IF call.nativeSpread
                 THEN [ret EXCEPT !.tasks[j] = "rejected"]
                 ELSE callbackReturns(
                        j, fetchedResult(call.rows[j].ticker,
                                         fetchYahooBundle(call.rows[j].ticker, outcome),
                                         call.options))
  /\ UNCHANGED <<pc, call>>

\* a deliberately wrong resumption: the scorer runs at the end of every batch,
\* over the intermediates gathered so far
AwaitBatch_scoresEachBatch ==
  /\ pc = "await"
  /\ call.fn = "processRows"
  /\ LET batch == batchOf(call.rows, ret.i, call.options.batchSize)
         pushed == ret.intermediates
                     \o [k \in 1..Cardinality(batch) |-> ret.results[ret.i + k]]
         scored == scoredRows(pushed)
     IN  /\ \A j \in batch : ret.tasks[j] = "resolved"
         /\ ret' = [ret EXCEPT
                      !.intermediates =
                         [k \in 1..Len(pushed) |-> [pushed[k] EXCEPT !.row = scored[k]]],
                      !.scorerCalls =
                         IF Len(compositeTargets(pushed, Len(pushed))) = 0 THEN @ ELSE @ + 1,
                      !.i = @ + call.options.batchSize]
  /\ pc' = "loop"
  /\ UNCHANGED call

\* lines 48, 151: every callback of the batch has returned, Promise.all
\* resolves with their results in the order of the rows
AwaitBatch ==
  /\ pc = "await"
  /\ call.fn = "processRows"
  /\ LET batch == batchOf(call.rows, ret.i, call.options.batchSize)
     IN  /\ \A j \in batch : ret.tasks[j] = "resolved"
         /\ ret' = [ret EXCEPT
                      !.intermediates =
                         @ \o [k \in 1..Cardinality(batch) |-> ret.results[ret.i + k]],
                      !.i = @ + call.options.batchSize]
  /\ pc' = "loop"
  /\ UNCHANGED call

\* line 48: a callback of the batch has thrown, Promise.all rejects, the
\* await throws and processRows rejects
BatchRejects ==
  /\ pc = "await"
  /\ call.fn = "processRows"
  /\ \E j \in batchOf(call.rows, ret.i, call.options.batchSize) :
       ret.tasks[j] = "rejected"
  /\ pc' = "rejected"
  /\ UNCHANGED <<call, ret>>

\* lines 154-171: after the last batch the rows that have a compositeInput
\* are scored together, if there is one, and the rows are returned
ScoreAndReturn ==
  /\ pc = "loop"
  /\ call.fn = "processRows"
  /\ ret.i >= Len(call.rows)
  /\ ret' = [ret EXCEPT
               !.rows = scoredRows(ret.intermediates),
               !.scorerCalls =
                  IF Len(compositeTargets(ret.intermediates, Len(ret.intermediates))) = 0
                  THEN @ ELSE @ + 1]
  /\ pc' = "return"
  /\ UNCHANGED call

NextProcessRows ==
  \/ ProcessRowsStart
  \/ StartBatch
  \/ FetchReturns
  \/ AwaitBatch
  \/ BatchRejects
  \/ ScoreAndReturn

SpecProcessRows == InitProcessRows /\ [][NextProcessRows]_vars

(***************************************************************************)
(* computeMomentum on a list in any order, in which several points may     *)
(* have the same timestamp                                                 *)
(***************************************************************************)
\* the largest number of points of such a list
MaxListLen == 3
ListDayVals == {0, DAYS_IN_MONTH, DAYS_IN_MONTH * 3, DAYS_IN_MONTH * 6}
ListCloseVals == {I(1), I(2), I(4)}
ListPoints == {[date |-> d, close |-> c] : d \in ListDayVals, c \in ListCloseVals}

\* line 148 sorts a copy, [...history]: the list passed is as it was
historyAfterCall(history) == history

InitMomentumList ==
  /\ pc = "call"
  /\ \E n \in 1..MaxListLen : \E h \in [1..n -> ListPoints] :
       call = [fn |-> "computeMomentum", history |-> h, passed |-> h]
  /\ ret = Null

\* call.passed keeps the list as it was passed, call.history is the list
\* after the call
CallComputeMomentumOnList ==
  /\ pc = "call"
  /\ call.fn = "computeMomentum"
  /\ ret' = computeMomentum(call.history)
  /\ call' = [call EXCEPT !.history = historyAfterCall(call.history)]
  /\ pc' = "return"

NextMomentumList == CallComputeMomentumOnList

SpecMomentumList == InitMomentumList /\ [][NextMomentumList]_vars

(***************************************************************************)
(* Properties                                                              *)
(***************************************************************************)
DcfReturned == pc = "return" /\ call.fn = "computeDCF"
DcfComputable ==
  Len(call.snapshot.fcfSeries) > 0 /\ Truthy(call.snapshot.sharesOutstanding)

\* C3: with a non-empty FCF series and non-zero shares, computeDCF called with
\* cost-of-capital <= terminal growth never returns an infinite value, nor a
\* negative value that the non-positive terminal denominator produced from a
\* positive cash flow and a positive share count.
C3_DcfGuardsLowWacc ==
  (DcfReturned /\ DcfComputable /\ RLe(call.wacc, call.terminalGrowth))
    => /\ ~IsInf(ret)
       /\ (RLt(I(0), call.snapshot.fcfSeries[1])
           /\ RLt(I(0), call.snapshot.sharesOutstanding)) => ~RLt(ret, I(0))

DcfPositiveCase ==
  /\ DcfReturned
  /\ Len(call.snapshot.fcfSeries) > 0
  /\ RLt(I(0), call.snapshot.fcfSeries[1])
  /\ ~IsNull(call.snapshot.sharesOutstanding)
  /\ RLt(I(0), call.snapshot.sharesOutstanding)
  /\ RLe(I(0), call.terminalGrowth)
  /\ RLt(call.terminalGrowth, call.wacc)

\* C7: when the most recent free cash flow and the share count are > 0 and
\* cost-of-capital > terminal growth >= 0, computeDCF returns a finite,
\* strictly positive value, and the growth rate it compounds lies in
\* [-20%, +25%] and is 0 when the growth rule yields missing.
C7_DcfFinitePositive ==
  DcfPositiveCase
    => /\ IsFinite(ret)
       /\ RLt(I(0), ret)
       /\ RLe(Q(-1, 5), dcfGrowthRate(call.snapshot))
       /\ RLe(dcfGrowthRate(call.snapshot), Q(1, 4))
       /\ IsNull(growth(call.snapshot.fcfSeries))
            => dcfGrowthRate(call.snapshot) = I(0)

\* a positive case in which the historical growth rate was above the 25% cap
C7_Witness ==
  /\ DcfPositiveCase
  /\ ~IsNull(growth(call.snapshot.fcfSeries))
  /\ RLt(Q(1, 4), growth(call.snapshot.fcfSeries))
  /\ RLt(I(0), ret)

\* C8: computeDCF returns null exactly when the FCF series is empty or the
\* share count is absent or zero, whatever the two rates; in every other case
\* it returns a number (a JavaScript number: not null).
C8_DcfMissingIff ==
  DcfReturned => (IsNull(ret) <=> ~DcfComputable)

\* zero shares with a non-empty series gave null
C8_Witness ==
  /\ DcfReturned
  /\ Len(call.snapshot.fcfSeries) > 0
  /\ call.snapshot.sharesOutstanding = I(0)
  /\ IsNull(ret)

GrowthReturned == pc = "return" /\ call.fn = "computeSeriesCagr"
GrowthMissingCase(s) ==
  Len(s) < 2 \/ RLe(s[Len(s)], I(0)) \/ RLe(s[1], I(0))
CagrYears(s) == IF Len(s) - 1 < 3 THEN Len(s) - 1 ELSE 3

\* C10: the growth rule returns missing iff the series has fewer than 2 points
\* or its oldest or newest point is <= 0; otherwise it returns g with
\* (1+g)^years = newest/oldest, years = min(length - 1, 3), whatever the
\* interior points ((1+g) is exact for years = 1 and otherwise the root
\* rounded down to a multiple of 1/RootScale).
C10_GrowthRule ==
  GrowthReturned =>
    LET s == call.series
        ratio == RDiv(s[1], s[Len(s)])
        base == RAdd(I(1), ret)
    IN  /\ IsNull(ret) <=> GrowthMissingCase(s)
        /\ ~GrowthMissingCase(s) =>
             /\ IsFinite(ret)
             /\ RLe(RPow(base, CagrYears(s)), ratio)
             /\ RLt(ratio, RPow(RAdd(base, Q(1, RootScale)), CagrYears(s)))
             /\ CagrYears(s) = 1 => base = ratio

\* a series of 5 points with a non-positive interior point and a non-zero CAGR
C10_Witness ==
  /\ GrowthReturned
  /\ Len(call.series) = 5
  /\ RLe(call.series[2], I(0))
  /\ ~IsNull(ret)
  /\ ret # I(0)

ForwardReturned == pc = "return" /\ call.fn = "computeForwardView"
ForwardAllMissing ==
  ret = [base |-> Null, bull |-> Null, bear |-> Null, confidence |-> Null]
ForwardAllNumbers ==
  ~IsNull(ret.base) /\ ~IsNull(ret.bull) /\ ~IsNull(ret.bear) /\ ~IsNull(ret.confidence)

\* C4: computeForwardView returns base, bull, bear and confidence all missing
\* whenever price is absent or P/E is absent or P/E <= 0; it computes numbers
\* only when price is present and P/E > 0.
C4_ForwardMissingOnBadPe ==
  ForwardReturned =>
    /\ (IsNull(call.params.price) \/ IsNull(call.params.pe)
        \/ RLe(call.params.pe, I(0))) => ForwardAllMissing
    /\ ForwardAllNumbers =>
         (~IsNull(call.params.price) /\ ~IsNull(call.params.pe)
          /\ RLt(I(0), call.params.pe))

ForwardComputedCase ==
  /\ ForwardReturned
  /\ Truthy(call.params.price)
  /\ ~IsNull(call.params.pe)
  /\ RLt(I(0), call.params.pe)

\* C6: whenever price is present and non-zero and P/E is present and positive,
\* whatever the EPS CAGR, peer P/E, beta and cost-of-capital, the results are
\* numbers with bull > base > bear strictly.
C6_ForwardOrdering ==
  ForwardComputedCase =>
    /\ ForwardAllNumbers
    /\ IsFinite(ret.base) /\ IsFinite(ret.bull) /\ IsFinite(ret.bear)
    /\ RLt(ret.base, ret.bull)
    /\ RLt(ret.bear, ret.base)

\* a small P/E with a high beta: P/E + mean reversion + macro shock is
\* negative before the clamp to [0.7, 1.3] x P/E
C6_Witness ==
  /\ ForwardComputedCase
  /\ RLt(call.params.pe, I(1))
  /\ ~IsNull(call.params.beta)
  /\ RLt(Q(13, 10), call.params.beta)
  /\ IsNull(call.params.peMedian)
  /\ RLt(ret.bear, ret.base)

MomentumReturned == pc = "return" /\ call.fn = "computeMomentum"

HistoryPoints == {call.history[i] : i \in 1..Len(call.history)}
SpansDays(n) == \E p, q \in HistoryPoints : q.date - p.date >= n
\* positive closes that rise strictly with time
RisingCloses ==
  /\ \A p \in HistoryPoints : RLt(I(0), p.close)
  /\ \A p, q \in HistoryPoints : p.date < q.date => RLt(p.close, q.close)
NewestPoint == CHOOSE p \in HistoryPoints : \A q \in HistoryPoints : q.date <= p.date
\* the newest point at least daysAgo days older than the newest point of all
PointBack(daysAgo) ==
  CHOOSE p \in HistoryPoints :
    /\ p.date <= NewestPoint.date - daysAgo
    /\ \A q \in HistoryPoints : q.date <= NewestPoint.date - daysAgo => q.date <= p.date
\* the average daily gain over the last 30 days exceeds that over the last 90
\* days, which exceeds that over the last 180 days
AcceleratingSlope ==
  LET gain(daysAgo) ==
        RDiv(RSub(NewestPoint.close, PointBack(daysAgo).close), I(daysAgo))
  IN  /\ RLt(gain(90), gain(30))
      /\ RLt(gain(180), gain(90))
RisingCase == MomentumReturned /\ SpansDays(180) /\ RisingCloses /\ AcceleratingSlope
ReturnsPresentPositive ==
  /\ ~IsNull(ret.return1M) /\ ~IsNull(ret.return3M) /\ ~IsNull(ret.return6M)
  /\ RLt(I(0), ret.return1M) /\ RLt(I(0), ret.return3M) /\ RLt(I(0), ret.return6M)

\* C2 as stated: for a history spanning at least 180 days whose (positive)
\* closes rise monotonically with an accelerating recent slope, the three
\* returns are present and positive with return1M > return3M > return6M and
\* the tag is "Most Momentum".
C2_RisingGetsTag ==
  RisingCase =>
    /\ ReturnsPresentPositive
    /\ RLt(ret.return3M, ret.return1M)
    /\ RLt(ret.return6M, ret.return3M)
    /\ ret.tag = "Most Momentum"

\* C2 amended: for such a history the three returns are present and positive,
\* but ordered the other way, return1M <= return3M <= return6M (a rising
\* series has gained more over a longer window), and the tag is null.
C2_RisingReturnsOrdered ==
  RisingCase =>
    /\ ReturnsPresentPositive
    /\ RLe(ret.return1M, ret.return3M)
    /\ RLe(ret.return3M, ret.return6M)
    /\ ret.tag = "null"

\* a rising, accelerating history given newest first, with three different
\* returns
C2_Witness ==
  /\ RisingCase
  /\ Len(call.history) = 4
  /\ call.history[1].date > call.history[2].date
  /\ RLt(ret.return1M, ret.return3M)
  /\ RLt(ret.return3M, ret.return6M)

ScoresReturned == pc = "return" /\ call.fn = "computeCompositeScores"
IsScore(x) == ~IsNull(x) /\ x[2] = 1 /\ 0 <= x[1] /\ x[1] <= 100
Categories ==
  {"valuation", "profitability", "growth", "health", "sentiment", "earningsQuality"}
MinMaxCategories == {"valuation", "profitability", "growth", "health", "sentiment"}
\* the fields whose min-max scores make up a category
MembersOf(category) ==
  CASE category = "valuation" -> {"pe", "evEbitda", "dcfVsPrice"}
    [] category = "profitability" -> {"roic", "ebitMargin", "roe"}
    [] category = "growth" -> {"revenueCagr", "epsCagr", "fcfCagr"}
    [] category = "health" -> {"debtToEquity", "interestCoverage"}
    [] category = "sentiment" ->
         {"insiderNetBuys", "institutionalPct", "shortInterestPct", "beta"}

\* C1: for any non-empty batch, every composite score and every one of the 6
\* subscores is an integer in [0,100].
C1_ScoresInRange ==
  ScoresReturned =>
    \A i \in 1..Len(ret) :
      /\ IsScore(ret[i].composite)
      /\ \A c \in Categories : IsScore(ret[i].subscores[c])

\* the present values of a field are all equal across the batch
AllEqual(rows, key) ==
  \A i, j \in 1..Len(rows) :
    (~IsNull(rows[i][key]) /\ ~IsNull(rows[j][key])) => rows[i][key] = rows[j][key]

\* C9: a batch of one security gets 50 in each of valuation, profitability,
\* growth, health and sentiment, whatever its 16 fields; more generally a
\* category all of whose member metrics have equal present values across the
\* batch is 50 for every security.
C9_SingletonNeutral ==
  ScoresReturned =>
    /\ Len(call.rows) = 1 =>
         \A c \in MinMaxCategories : ret[1].subscores[c] = I(50)
    /\ \A c \in MinMaxCategories :
         (\A key \in MembersOf(c) : AllEqual(call.rows, key)) =>
           \A i \in 1..Len(ret) : ret[i].subscores[c] = I(50)

\* a batch of one security with every field present, and beta not 1
C9_Witness ==
  /\ ScoresReturned
  /\ Len(call.rows) = 1
  /\ ~IsNull(call.rows[1].pe)
  /\ ~IsNull(call.rows[1].fcfToNi)
  /\ call.rows[1].beta = I(3)
  /\ ret[1].subscores.sentiment = I(50)

MetricsReturned == pc = "return" /\ call.fn = "deriveMetrics"
\* the 7 inputs of the Altman Z: working capital (current assets and current
\* liabilities), retained earnings, EBIT, market cap, total liabilities,
\* revenue and total assets
AltmanInputsPresent ==
  /\ ~IsNull(call.snapshot.currentAssets) /\ ~IsNull(call.snapshot.currentLiabilities)
  /\ ~IsNull(call.snapshot.retainedEarnings)
  /\ ~IsNull(call.snapshot.ebit)
  /\ ~IsNull(call.snapshot.marketCap)
  /\ ~IsNull(call.snapshot.totalLiabilities)
  /\ ~IsNull(call.snapshot.revenue)
  /\ ~IsNull(call.snapshot.totalAssets)

\* C5: deriveMetrics returns a non-missing Altman Z only if all 7 required
\* inputs are present in the snapshot; if any one of them is missing, total
\* liabilities alone included, the Altman Z is missing.
C5_AltmanAllOrNothing ==
  MetricsReturned => (~IsNull(ret.altmanZ) => AltmanInputsPresent)

\* closes that never rise with time (constant closes included)
NonIncreasingCloses ==
  \A p, q \in HistoryPoints : p.date < q.date => RLe(q.close, p.close)
TagCondition ==
  /\ ReturnsPresentPositive
  /\ RLt(ret.return6M, ret.return3M)
  /\ RLt(ret.return3M, ret.return1M)

\* C11: the tag is "Most Momentum" if and only if return1M, return3M and
\* return6M are all present, all strictly positive, return3M > return6M and
\* return1M > return3M; and a history whose closes are constant or
\* non-increasing in time gets the tag null.
C11_TagRule ==
  MomentumReturned =>
    /\ ret.tag \in {"Most Momentum", "null"}
    /\ (ret.tag = "Most Momentum") <=> TagCondition
    /\ NonIncreasingCloses => ret.tag = "null"

\* a history that gets the tag: the closes 30, 90 and 180 days back rise with
\* age and all lie below the latest close
C11_Witness ==
  /\ MomentumReturned
  /\ ret.tag = "Most Momentum"
  /\ SpansDays(180)
  /\ RLt(PointBack(30).close, PointBack(90).close)
  /\ RLt(PointBack(90).close, PointBack(180).close)
  /\ RLt(PointBack(180).close, NewestPoint.close)

\* a declining history spanning 180 days: three negative returns, no tag
C11_DecliningCase ==
  /\ MomentumReturned
  /\ SpansDays(180)
  /\ NonIncreasingCloses
  /\ ~IsNull(ret.return1M) /\ RLt(ret.return1M, I(0))
  /\ ~IsNull(ret.return6M) /\ RLt(ret.return6M, ret.return1M)
  /\ ret.tag = "null"

Permuted(rows, f) == [i \in 1..Len(rows) |-> rows[f[i]]]

\* C12: the result list has the length of the input and its i-th entry is the
\* result of the i-th security; the batch given in any other order gives every
\* security the same composite and subscores.
C12_OrderIndependent ==
  ScoresReturned =>
    /\ Len(ret) = Len(call.rows)
    /\ \A f \in Permutations(1..Len(call.rows)) :
         LET out == computeCompositeScores(Permuted(call.rows, f))
         IN  /\ Len(out) = Len(ret)
             /\ \A i \in 1..Len(out) : out[i] = ret[f[i]]

\* a batch of three securities with three different composites, given neither
\* best first nor worst first
C12_Witness ==
  /\ ScoresReturned
  /\ Len(call.rows) = 3
  /\ RLt(ret[2].composite, ret[1].composite)
  /\ RLt(ret[1].composite, ret[3].composite)

MinBetterKeys == {"pe", "evEbitda", "debtToEquity", "shortInterestPct"}
ModeOf(key) == IF key \in MinBetterKeys THEN "min" ELSE "max"
\* the score a member metric contributes to its category
MemberOf(rows, row, key) ==
  IF key = "beta" THEN betaScore(rows, row)
  ELSE memberScore(rows, row, key, ModeOf(key))

\* C13: a member metric whose value is missing for a security (or for every
\* security of the batch) contributes exactly 0.5 to its category; a missing
\* FCF/net-income ratio gives the earningsQuality subscore 50; so a category
\* all of whose members are missing for a security is 50 for it.
C13_MissingIsNeutral ==
  ScoresReturned =>
    \A i \in 1..Len(call.rows) :
      LET row == call.rows[i]
      IN  /\ \A c \in MinMaxCategories : \A key \in MembersOf(c) :
               IsNull(row[key]) => MemberOf(call.rows, row, key) = Q(1, 2)
          /\ IsNull(row.fcfToNi) => ret[i].subscores.earningsQuality = I(50)
          /\ \A c \in MinMaxCategories :
               (\A key \in MembersOf(c) : IsNull(row[key])) =>
                 ret[i].subscores[c] = I(50)

\* two securities: the first has nothing but a beta, the second has every
\* metric and a different beta; the first gets 50 in every category it has no
\* value for
C13_Witness ==
  /\ ScoresReturned
  /\ Len(call.rows) = 2
  /\ IsNull(call.rows[1].pe) /\ IsNull(call.rows[1].fcfToNi)
  /\ call.rows[1].beta = I(1)
  /\ ~IsNull(call.rows[2].pe) /\ ~IsNull(call.rows[2].fcfToNi)
  /\ call.rows[2].beta = I(3)
  /\ ret[1].subscores.valuation = I(50)
  /\ ret[1].subscores.earningsQuality = I(50)
  /\ ret[2].subscores.earningsQuality # I(50)

\* proximity of a beta to 1
BetaProximity(beta) == RSub(I(1), RAbs(RSub(beta, I(1))))
\* the proximities of the betas present in the batch
RECURSIVE BetaProximities(_, _)
BetaProximities(rows, k) ==
  IF k = 0 THEN <<>>
  ELSE IF IsNull(rows[k].beta) THEN BetaProximities(rows, k - 1)
  ELSE Append(BetaProximities(rows, k - 1), BetaProximity(rows[k].beta))

\* C14: the beta member of sentiment is the max-is-better min-max
\* normalization of t = 1 - |beta - 1| against the batch's list of that same
\* quantity, so it lies in [0,1]; it is the neutral 0.5 of a missing metric
\* only when beta is absent (a beta of 0 is present, with t = 0).
C14_BetaProximity ==
  ScoresReturned =>
    \A i \in 1..Len(call.rows) :
      LET row == call.rows[i]
          member == betaScore(call.rows, row)
      IN  /\ RLe(I(0), member) /\ RLe(member, I(1))
          /\ member =
               IF IsNull(row.beta) THEN Q(1, 2)
               ELSE normalizeMaxBetter(BetaProximity(row.beta),
                                       BetaProximities(call.rows, Len(call.rows)))

SnapshotBuilt == pc = "return" /\ call.fn = "buildFinancialSnapshot"
SnapshotDerived == pc = "return" /\ call.fn = "deriveMetrics" /\ "data" \in DOMAIN call
PeriodsUsed(list) == IF Len(list) < 3 THEN Len(list) ELSE 3

\* net income / shares of the first k periods, in order, of those periods
\* whose net income is present, the shares being present and non-zero
RECURSIVE PresentEps(_, _, _)
PresentEps(statements, shares, k) ==
  IF k = 0 THEN <<>>
  ELSE IF ~IsNull(statements[k].netIncome) /\ ~IsNull(shares) /\ shares # I(0)
  THEN Append(PresentEps(statements, shares, k - 1),
              RDiv(statements[k].netIncome, shares))
  ELSE PresentEps(statements, shares, k - 1)

\* C15: the EPS series holds, for each of the first 3 income-statement
\* periods in order, net income / shares whenever net income is present and
\* shares is present and non-zero (a net income of 0 gives the EPS 0); so a
\* newest period with zero net income makes the EPS CAGR missing.
C15_EpsSeries ==
  LET statements == call.data.incomeStatementHistory
      shares == call.data.defaultKeyStatistics.sharesOutstanding
  IN  /\ SnapshotBuilt =>
           ret.epsSeries = PresentEps(statements, shares, PeriodsUsed(statements))
      /\ (/\ SnapshotDerived
          /\ Len(statements) > 0
          /\ statements[1].netIncome = I(0)
          /\ ~IsNull(shares) /\ shares # I(0)) => IsNull(ret.epsCagr)

\* what the first k cash-flow periods contribute, in order: the reported free
\* cash flow if present, else operating cash flow + capital expenditures if
\* both are present, else nothing
RECURSIVE PresentFcf(_, _)
PresentFcf(statements, k) ==
  IF k = 0 THEN <<>>
  ELSE LET s == statements[k]
           rest == PresentFcf(statements, k - 1)
       IN  IF ~IsNull(s.freeCashFlow) THEN Append(rest, s.freeCashFlow)
           ELSE IF ~IsNull(s.totalCashFromOperatingActivities)
                   /\ ~IsNull(s.capitalExpenditures)
           THEN Append(rest, RAdd(s.totalCashFromOperatingActivities,
                                  s.capitalExpenditures))
           ELSE rest

Present(x) == ~IsNull(x)
NonZero(x) == ~IsNull(x) /\ x # I(0)
\* invested capital: total assets - current liabilities - cash if those are
\* present, else total debt + total equity - cash
InvestedCapital(s) ==
  IF Present(s.totalAssets) /\ Present(s.currentLiabilities) /\ Present(s.cash)
  THEN RSub(RSub(s.totalAssets, s.currentLiabilities), s.cash)
  ELSE IF Present(s.totalDebt) /\ Present(s.totalEquity) /\ Present(s.cash)
  THEN RSub(RAdd(s.totalDebt, s.totalEquity), s.cash)
  ELSE Null
MostRecentFcf(s) == IF Len(s.fcfSeries) = 0 THEN Null ELSE s.fcfSeries[1]

\* C17: each ratio of deriveMetrics is missing if and only if one of its
\* required inputs is missing, its denominator is zero or its positivity guard
\* fails; a present input of zero that is not a denominator (EBIT, net income
\* as numerator, most recent FCF, price, market cap, debt, cash) gives a
\* number.
C17_RatiosMissingIff ==
  MetricsReturned =>
    LET s == call.snapshot
    IN  /\ Present(ret.pe) <=>
             (Present(s.price) /\ Present(s.epsTtm) /\ RLt(I(0), s.epsTtm))
        /\ Present(ret.ev) <=>
             (Present(s.marketCap) /\ Present(s.totalDebt) /\ Present(s.cash))
        /\ Present(ret.roic) <=> (Present(s.ebit) /\ NonZero(InvestedCapital(s)))
        /\ Present(ret.ebitMargin) <=> (Present(s.ebit) /\ NonZero(s.revenue))
        /\ Present(ret.netMargin) <=> (Present(s.netIncome) /\ NonZero(s.revenue))
        /\ Present(ret.roe) <=> (Present(s.netIncome) /\ NonZero(s.totalEquity))
        /\ Present(ret.debtToEquity) <=> (Present(s.totalDebt) /\ NonZero(s.totalEquity))
        /\ Present(ret.interestCoverage) <=>
             (Present(s.ebit) /\ NonZero(s.interestExpense))
        /\ Present(ret.fcfToNi) <=> (Present(MostRecentFcf(s)) /\ NonZero(s.netIncome))

\* C20: the estimated WACC lies within its floor and cap for every beta, a
\* missing beta included: within [6%, 14%] for the estimateWacc of the CLI,
\* within [waccFloor, waccCeiling] for the estimateWacc of processRows, for
\* every floor <= ceiling.
C20_WaccWithinLimits ==
  /\ (pc = "return" /\ call.fn = "cli.estimateWacc") =>
       (RLe(Q(3, 50), ret) /\ RLe(ret, Q(7, 50)))
  /\ (pc = "return" /\ call.fn = "processRows.estimateWacc") =>
       (RLe(call.floor, ret) /\ RLe(ret, call.ceiling))

CliRunning == call.fn = "main" /\ pc \in {"loop", "return"}
CliDone == call.fn = "main" /\ pc = "return"
HasTicker(entry) == StrTruthy(entry.meta.symbol)
\* the tickers of the first k entries that have one, in order
RECURSIVE TickersOf(_, _)
TickersOf(entries, k) ==
  IF k = 0 THEN <<>>
  ELSE IF HasTicker(entries[k]) THEN Append(TickersOf(entries, k - 1), entries[k].meta.symbol)
  ELSE TickersOf(entries, k - 1)
ErrorRow(row) ==
  /\ row.Status = "error"
  /\ row.Message # undefined /\ row.Message # ""
  /\ \A c \in NumericColumns : IsNull(row.numeric[c])

\* C18: whatever the fetches do (data, no data, not found, any thrown error),
\* the loop goes on past failures: at the end there is exactly one row per
\* entry, in entry order; every entry that has a ticker has been fetched,
\* once and in order, whatever became of the entries before it; and the row
\* of a failed entry has Status 'error', a non-empty Message and every numeric
\* column null.
C18_LoopContinues ==
  CliRunning =>
    /\ Len(ret.results) <= Len(ret.entries)
    /\ CliDone => Len(ret.results) = Len(ret.entries)
    /\ ret.requests = TickersOf(ret.entries, Len(ret.results))
    /\ \A i \in 1..Len(ret.results) :
         /\ ret.results[i].Input = ret.entries[i].input
         /\ ret.results[i].Status \in {"ok", "error"}
         /\ ret.results[i].Status = "error" => ErrorRow(ret.results[i])
         /\ ~HasTicker(ret.entries[i]) => ret.results[i].Status = "error"

\* a run of two entries: the fetch of the first throws, the second is fetched
\* all the same and gets its data
C18_Witness ==
  /\ CliDone
  /\ Len(ret.entries) = 2
  /\ Len(ret.requests) = 2
  /\ ret.results[1].Status = "error"
  /\ ret.results[1].Message = "Yahoo fetch failed for SAP.DE: Too Many Requests"
  /\ ret.results[2].Status = "ok"
  /\ ret.results[2].numeric["WACC"] = Q(3, 25)

InIsinMap(entry) == entry.isin \in DOMAIN call.isinMap
\* the tickers the lookup map gives the first k entries, in order
RECURSIVE MappedTickers(_, _)
MappedTickers(entries, k) ==
  IF k = 0 THEN <<>>
  ELSE IF InIsinMap(entries[k])
  THEN Append(MappedTickers(entries, k - 1), call.isinMap[entries[k].isin])
  ELSE MappedTickers(entries, k - 1)

\* C19: every ISIN, of a CSV row or positional, is resolved to its Yahoo
\* ticker through the lookup map: the tickers fetched are those the map gives
\* the entries, the Symbol column is never used as the ticker, and a
\* positional ISIN that is in the map is fetched, not reported as an error.
C19_IsinMapResolves ==
  CliRunning =>
    /\ ret.requests = MappedTickers(ret.entries, Len(ret.results))
    /\ \A i \in 1..Len(ret.results) :
         InIsinMap(ret.entries[i]) =>
           ret.results[i].Ticker = call.isinMap[ret.entries[i].isin]

ProcessRowsRunning == call.fn = "processRows" /\ pc # "call"
ProcessRowsReturned == call.fn = "processRows" /\ pc = "return"
Unscored(row) == IsNull(row.compositeScore) /\ row.subscores = NoSubscores

\* C21: whatever the number of rows, the batchSize and the order in which
\* the concurrent fetches return, computeCompositeScores is called at most
\* once in a run, and when it is called the callback of every row of every
\* batch has returned and its result has been gathered; as long as it has
\* not been called no row has a compositeScore or subscores.
C21_ScoredOnceAtEnd ==
  ProcessRowsRunning =>
    /\ ret.scorerCalls <= 1
    /\ ret.scorerCalls = 1 =>
         /\ \A j \in 1..Len(call.rows) : ret.tasks[j] = "resolved"
         /\ Len(ret.intermediates) = Len(call.rows)
    /\ ret.scorerCalls = 0 =>
         /\ \A j \in 1..Len(call.rows) : Unscored(ret.results[j].row)
         /\ \A k \in 1..Len(ret.intermediates) : Unscored(ret.intermediates[k].row)
         /\ \A k \in 1..Len(ret.rows) : Unscored(ret.rows[k])

\* a run of three rows in two batches whose fetches returned in the order
\* opposite to that of the rows: the scorer has been called, once, and the
\* rows have their scores
C21_Witness ==
  /\ ProcessRowsReturned
  /\ call.options.batchSize = 2
  /\ Len(call.rows) = 3
  /\ ret.scorerCalls = 1
  /\ Len(ret.logs) = 5
  /\ ret.logs[2].ticker = call.rows[2].ticker
  /\ ret.logs[3].ticker = call.rows[1].ticker
  /\ call.rows[1].ticker # call.rows[2].ticker
  /\ \A k \in 1..3 : ~Unscored(ret.rows[k])

\* the row of an entry whose request Yahoo turned down for rate limiting
RateLimitedRow(entry, row) ==
  /\ HasTicker(entry)
  /\ row.Status = "error"
  /\ row.Message = "Yahoo fetch failed for " \o entry.meta.symbol \o ": Too Many Requests"

\* C22: a request that fails is tried again inside fetchYahooBundle before
\* the error is returned: when the row of an entry reports a failed request,
\* Yahoo has been asked more often than once per fetched entry.
C22_RetriedBeforeError ==
  CliRunning =>
    ((\E i \in 1..Len(ret.results) : RateLimitedRow(ret.entries[i], ret.results[i]))
       => Len(ret.requests) > Len(TickersOf(ret.entries, Len(ret.results))))

MomentumListReturned ==
  pc = "return" /\ call.fn = "computeMomentum" /\ "passed" \in DOMAIN call
DistinctDates(history) ==
  \A i, j \in 1..Len(history) : i # j => history[i].date # history[j].date

\* C23 (as claimed): computeMomentum gives every permutation of a non-empty
\* list the same returns, tag and distances, also when several points have
\* the same timestamp and different closes, and leaves the list as it was.
C23_OrderIndependent ==
  MomentumListReturned =>
    /\ call.history = call.passed
    /\ \A f \in Permutations(1..Len(call.passed)) :
         computeMomentum(Permuted(call.passed, f)) = ret

\* C23 (amended): computeMomentum gives every permutation of a non-empty list
\* whose points have pairwise different timestamps the same returns, tag and
\* distances, and leaves the list, whatever its timestamps, as it was.
C23_OrderIndependentDistinctDates ==
  MomentumListReturned =>
    /\ call.history = call.passed
    /\ DistinctDates(call.passed) =>
         \A f \in Permutations(1..Len(call.passed)) :
           computeMomentum(Permuted(call.passed, f)) = ret

\* three points of different days, passed newest first, with all three
\* closes different: the 1-month and 3-month returns are numbers
C23_Witness ==
  /\ MomentumListReturned
  /\ Len(call.passed) = 3
  /\ DistinctDates(call.passed)
  /\ call.passed[1].date > call.passed[2].date
  /\ call.passed[2].date > call.passed[3].date
  /\ call.passed[1].close # call.passed[2].close
  /\ call.passed[2].close # call.passed[3].close
  /\ ~IsNull(ret.return1M)
  /\ ~IsNull(ret.return3M)
  /\ ret.return1M # ret.return3M

AltmanZeroDenominator ==
  call.snapshot.totalAssets = I(0) \/ call.snapshot.totalLiabilities = I(0)

\* C24: when all 7 inputs of the Altman Z are present and total assets or
\* total liabilities is zero, deriveMetrics returns the Altman Z as missing:
\* not a sum in which the terms over the zero denominator count as 0, and
\* not an infinity or NaN.
C24_AltmanZeroDenominator ==
  (MetricsReturned /\ AltmanInputsPresent /\ AltmanZeroDenominator) =>
    IsNull(ret.altmanZ)

\* the compositeInputs of the first k intermediates whose row is ok, in order
RECURSIVE OkInputs(_, _)
OkInputs(intermediates, k) ==
  IF k = 0 THEN <<>>
  ELSE IF intermediates[k].row.status = "ok"
  THEN Append(OkInputs(intermediates, k - 1), intermediates[k].compositeInput)
  ELSE OkInputs(intermediates, k - 1)

\* C25: whatever the batchSize and the order in which the concurrent fetches
\* return, the rows processRows returns are one per input row, in the order
\* of the input; a row has a compositeScore and subscores exactly when its
\* status is 'ok'; and the scores of an ok row are those
\* computeCompositeScores returns for its own ScoreInputs in the list of the
\* ok rows' inputs, so that rows without ticker or with a failed fetch have
\* no score and no part in the distribution.
C25_RowsInOrderAndScored ==
  ProcessRowsReturned =>
    LET inputs == OkInputs(ret.intermediates, Len(ret.intermediates))
        expected == computeCompositeScores(inputs)
    IN  /\ Len(ret.rows) = Len(call.rows)
        /\ \A k \in 1..Len(ret.rows) :
             LET row == ret.rows[k]
                 own == Len(OkInputs(ret.intermediates, k))
             IN  /\ row.ticker = IF StrTruthy(call.rows[k].ticker)
                                 THEN call.rows[k].ticker
                                 ELSE call.rows[k].input
                 /\ row.status \in {"ok", "error"}
                 /\ ~StrTruthy(call.rows[k].ticker) => row.status = "error"
                 /\ row.status = "error" => Unscored(row)
                 /\ row.status = "ok" =>
                      /\ row.compositeScore = expected[own].composite
                      /\ row.subscores = expected[own].subscores
                      /\ IsScore(row.compositeScore)
                      /\ \A c \in Categories : IsScore(row.subscores[c])

\* one batch of three rows: the second has no ticker, the fetch of the third
\* returned before that of the first, and the two ok rows, of different
\* data, got different scores
C25_Witness ==
  /\ ProcessRowsReturned
  /\ call.options.batchSize = 3
  /\ Len(call.rows) = 3
  /\ call.rows[2].ticker = undefined
  /\ call.rows[1].ticker # call.rows[3].ticker
  /\ Len(ret.logs) = 3
  /\ ret.logs[2].ticker = call.rows[3].ticker
  /\ ret.logs[3].ticker = call.rows[1].ticker
  /\ ret.rows[1].status = "ok"
  /\ ret.rows[2].status = "error"
  /\ ret.rows[3].status = "ok"
  /\ ret.rows[1].compositeScore # ret.rows[3].compositeScore

====
